---------------------------- MODULE Spec2Model ----------------------------
(***************************************************************************)
(* State-machine model of tradelogger.py: the Tk owner thread (one action  *)
(* per callback it runs), the transport thread (one action per IBApp       *)
(* callback), the persisted trades file and balance log, and the           *)
(* auto-refresh timer.                                                     *)
(* Money amounts are integers (cents); a DateTime is the value of a        *)
(* one-second clock.                                                       *)
(***************************************************************************)
EXTENDS Integers, Sequences, FiniteSets, TLC

VARIABLES
    trades,              \* self.trades: the in-memory list of trade dicts
    trade_exec_ids,      \* self.trade_exec_ids: the known-ExecId set
    exec_id_to_tree_id,  \* self.exec_id_to_tree_id: ExecId -> row of self.tree
    tree,                \* self.tree: the displayed rows, in order
    trades_file,         \* contents of trades.json
    sort_column,         \* self.sort_column
    sort_reverse,        \* self.sort_reverse
    queue,               \* callbacks registered with root.after(0, ...), FIFO
    balance_file,        \* contents of accountBalances.json
    now,                 \* datetime.now() at one-second resolution
    AccountBalance,      \* calc_vars['AccountBalance']
    SelectedAccount,     \* calc_vars['SelectedAccount'] ("" when unset)
    managed_accounts,    \* self.managed_accounts
    ib_app,              \* self.ib_app is not None
    connected,           \* self.ib_app.isConnected()
    login_enabled,       \* login_button state is NORMAL
    refresh_enabled,     \* refresh_button state is NORMAL
    auto_refresh_enabled,\* self.auto_refresh_enabled, as config.json holds it
    auto_refresh_job,    \* self.auto_refresh_job (0 is None)
    timers,              \* ids of the auto-refresh timers pending in Tk
    checks,              \* pending check_connection_status callbacks
    auto_connect_pending,\* the root.after(500, connect_to_tws) of __init__
    req_executions,      \* reqExecutions requests sent, modulo MaxReq + 1
    closed,              \* root.destroy() has run
    h_first,             \* history: ExecId -> first execution event applied
    h_exec_delivered,    \* history: ExecIds whose execution event was delivered,
                         \*   in this run or the one that saved the record
    h_applied,           \* history: ExecIds whose record received a commission
    h_dropped,           \* history: ExecIds a commission event found no record for
    h_last,              \* history: the update the owner thread ran last, and
                         \*   whether the one before it was the same
    h_delivered,         \* history: account -> balance values delivered
    h_writers,           \* history: shared state -> threads that mutated it
    h_closed,            \* history: a connection-closed reset ran, no connect since
    h_cancelled,         \* history: stop_auto_refresh cancelled a pending timer
    h_fired_offline,     \* history: the timer fired while disconnected
    window_history,      \* BalanceHistoryWindow.history
    history_sort_column, \* BalanceHistoryWindow.sort_column
    history_sort_reverse,\* BalanceHistoryWindow.sort_reverse
    history_open,        \* a BalanceHistoryWindow exists
    Ticker,              \* calc_vars['Ticker']
    RiskPrct,            \* calc_vars['RiskPrct'], as the entry holds it
    Entry,               \* calc_vars['Entry']
    Stop,                \* calc_vars['Stop']
    Target,              \* calc_vars['Target']
    calc_result_vars,    \* the seven displayed outputs of the calculator
    raw_files,           \* what the three store files hold on disk at launch
    loaded,              \* what load_config, load_trades, load_balance_history
                         \*   and the start of __init__ made of them
    h_tried,             \* history: the venues the last price lookup asked
    h_report             \* history: what the last price lookup reported

vars == << trades, trade_exec_ids, exec_id_to_tree_id, tree, trades_file,
           sort_column, sort_reverse, queue, balance_file, now, AccountBalance,
           SelectedAccount, managed_accounts, ib_app, connected,
           login_enabled, refresh_enabled, auto_refresh_enabled,
           auto_refresh_job, timers, checks, auto_connect_pending,
           req_executions, closed, h_first, h_exec_delivered, h_applied, h_dropped,
           h_last,
           h_delivered, h_writers, h_closed, h_cancelled, h_fired_offline,
           window_history, history_sort_column, history_sort_reverse, history_open,
           Ticker, RiskPrct, Entry, Stop, Target, calc_result_vars,
           raw_files, loaded, h_tried, h_report >>

tradeVars == << trades, trade_exec_ids, exec_id_to_tree_id, tree, trades_file,
                sort_column, sort_reverse >>
tradeHist == << h_first, h_exec_delivered, h_applied, h_dropped >>
balanceVars == << balance_file, now, AccountBalance, SelectedAccount,
                  managed_accounts, h_delivered >>
connVars == << ib_app, connected, login_enabled, refresh_enabled,
               auto_refresh_enabled, auto_refresh_job, timers,
               checks, auto_connect_pending, req_executions,
               closed, h_closed, h_cancelled, h_fired_offline >>

windowVars == << window_history, history_sort_column, history_sort_reverse,
                history_open >>
calcVars == << Ticker, RiskPrct, Entry, Stop, Target >>
lookupHist == << h_tried, h_report >>
loadVars == << raw_files, loaded >>
toolVars == << windowVars, calcVars, calc_result_vars, lookupHist, loadVars >>

-----------------------------------------------------------------------------
(* Bounds of the model *)

MaxQueue == 2       \* callbacks waiting in the Tk queue
MaxClock == 1       \* seconds the clock may advance
MaxTimers == 3      \* distinct timer ids in use at once
MaxChecks == 2      \* check_connection_status callbacks pending at once
MaxReq == 2         \* reqExecutions requests are counted modulo MaxReq + 1
MaxDeliveries == 5  \* account-summary values delivered

(* sys.float_info.max, the value the transport reports for an unset P&L *)
FloatMax == 1000000

None == "None"

-----------------------------------------------------------------------------
(* Strings: str() of a value and Python's comparison of str *)

\* the characters of each string the model uses, as code points
Chars(s) ==
    CASE s = "0915" -> << 48, 57, 49, 53 >>
      [] s = "0930" -> << 48, 57, 51, 48 >>
      [] s = "0945" -> << 48, 57, 52, 53 >>
      [] s = "BOT" -> << 66, 79, 84 >>
      [] s = "SLD" -> << 83, 76, 68 >>
      [] s = "U1" -> << 85, 49 >>
      [] s = "U2" -> << 85, 50 >>
      [] s = "AAPL STK (USD)" ->
            << 65, 65, 80, 76, 32, 83, 84, 75, 32, 40, 85, 83, 68, 41 >>
      [] s = "MSFT STK (USD)" ->
            << 77, 83, 70, 84, 32, 83, 84, 75, 32, 40, 85, 83, 68, 41 >>
      [] s = "None" -> << 78, 111, 110, 101 >>
      [] OTHER -> << >>

RECURSIVE LexLess(_, _)
LexLess(u, v) ==
    IF v = << >> THEN FALSE
    ELSE IF u = << >> THEN TRUE
    ELSE IF Head(u) < Head(v) THEN TRUE
    ELSE IF Head(u) > Head(v) THEN FALSE
    ELSE LexLess(Tail(u), Tail(v))

Reverse(s) == [i \in 1..Len(s) |-> s[Len(s) + 1 - i]]

-----------------------------------------------------------------------------
(* Trade records *)

columns == << "Time", "Instrument", "Action", "Quantity", "Price", "Account",
              "Commission", "Realized P&L" >>
NumericColumns == {"Quantity", "Price", "Commission", "Realized P&L"}
IdentityFields == {"Time", "Instrument", "Action", "Quantity", "Price", "Account"}

\* the executions the transport may report: (contract, execution) pairs
Executions ==
    { [execId |-> "e1", time |-> "0930", symbol |-> "AAPL", secType |-> "STK",
       currency |-> "USD", side |-> "BOT", shares |-> 100, price |-> 5000,
       acctNumber |-> "U1"],
      [execId |-> "e1", time |-> "0945", symbol |-> "AAPL", secType |-> "STK",
       currency |-> "USD", side |-> "BOT", shares |-> 50, price |-> 5100,
       acctNumber |-> "U1"],
      [execId |-> "e2", time |-> "0915", symbol |-> "MSFT", secType |-> "STK",
       currency |-> "USD", side |-> "SLD", shares |-> 100, price |-> 30000,
       acctNumber |-> "U2"],
      [execId |-> "", time |-> "0945", symbol |-> "MSFT", secType |-> "STK",
       currency |-> "USD", side |-> "SLD", shares |-> 10, price |-> 30000,
       acctNumber |-> "U2"] }

\* the commission reports the transport may deliver
CommissionReports ==
    { [execId |-> "e1", commission |-> 100, realizedPNL |-> -250],
      [execId |-> "e1", commission |-> 120, realizedPNL |-> FloatMax] }

ExecIds == {x.execId : x \in Executions} \ {""}

\* the dict execDetails builds from the contract and the execution
TradeData(x) ==
    ("ExecId" :> x.execId) @@ ("Time" :> x.time) @@
    ("Instrument" :> x.symbol \o " " \o x.secType \o " (" \o x.currency \o ")") @@
    ("Action" :> x.side) @@ ("Quantity" :> x.shares) @@ ("Price" :> x.price) @@
    ("Account" :> x.acctNumber) @@ ("Commission" :> 0) @@ ("Realized P&L" :> 0)

\* dict.get(key): None for a missing key
Get(d, key) == IF key \in DOMAIN d THEN d[key] ELSE None

\* the JSON strings a numeric column of a hand-edited store may hold
JsonStrings == {"abc", "7", None}

\* the value is a str (or None), not a number
IsStr(value) == ToString(value) \in {ToString(t) : t \in JsonStrings}

\* float(value) raises ValueError (text that is no number) or TypeError (None)
FloatFails(value) == IsStr(value) /\ value # "7"

\* float(value) of a numeric column of a record
Float(value) == IF IsStr(value) THEN (IF value = "7" THEN 7 ELSE 0) ELSE value

\* the numeric column of BalanceHistoryWindow.sort_by_column
HistoryNumericColumns == {"Balance"}

\* strftime("%Y-%m-%d %H:%M:%S") of the clock: only the seconds differ
DateTimeChars(t) == << 48 + (t \div 10), 48 + (t % 10) >>

\* str(record.get(col))
Str(record, col) ==
    IF col = "DateTime" /\ col \in DOMAIN record THEN DateTimeChars(record[col])
    ELSE Chars(Get(record, col))

\* variant: a value float() rejects sorts as plus infinity
SortKeyPlusInf(trade, col) ==
    IF col \in NumericColumns \cup HistoryNumericColumns
    THEN IF FloatFails(Get(trade, col)) THEN << 2, 0 >>
         ELSE << 1, Float(Get(trade, col)) >>
    ELSE Str(trade, col)
\* sort_key(record) of either sort_by_column (trades: lines 465-470, balance
\* history: lines 672-677): << 0, 0 >> is -inf and << 1, x >> the float x for a
\* numeric column, the characters of str(value) otherwise
SortKey(trade, col) ==
    IF col \in NumericColumns \cup HistoryNumericColumns
    THEN IF FloatFails(Get(trade, col)) THEN << 0, 0 >>
         ELSE << 1, Float(Get(trade, col)) >>
    ELSE Str(trade, col)

\* Python's < on two sort keys
KeyLess(col, a, b) ==
    IF col \in NumericColumns \cup HistoryNumericColumns
    THEN a[1] < b[1] \/ (a[1] = b[1] /\ a[2] < b[2])
    ELSE LexLess(a, b)

\* list.sort(key=...): stable, ascending
RECURSIVE InsertByKey(_, _, _)
InsertByKey(s, t, col) ==
    IF s = << >> THEN << t >>
    ELSE IF KeyLess(col, SortKey(t, col), SortKey(Head(s), col))
         THEN << t >> \o s
         ELSE << Head(s) >> \o InsertByKey(Tail(s), t, col)

RECURSIVE SortAscending(_, _)
SortAscending(s, col) ==
    IF s = << >> THEN << >>
    ELSE InsertByKey(SortAscending(SubSeq(s, 1, Len(s) - 1), col), s[Len(s)], col)

\* variant: a descending sort that is the ascending one reversed
ListSortFlipped(s, col, reverse) ==
    IF reverse THEN Reverse(SortAscending(s, col))
    ELSE SortAscending(s, col)
\* list.sort(key=..., reverse=...): reverse keeps equal keys in input order
ListSort(s, col, reverse) ==
    IF reverse THEN Reverse(SortAscending(Reverse(s), col))
    ELSE SortAscending(s, col)

\* _format_trade_for_display: the row of display values
FormatTradeForDisplay(trade) == [i \in 1..Len(columns) |-> Get(trade, columns[i])]

\* variant: only the rows of the records with a commission are mapped
RepopulateTreeCharged(tr) ==
    [ tree |-> [i \in 1..Len(tr) |-> FormatTradeForDisplay(tr[i])],
      map |-> [e \in {tr[i]["ExecId"] : i \in {j \in 1..Len(tr) : tr[j]["Commission"] # 0}}
                 |-> CHOOSE i \in 1..Len(tr) : tr[i]["ExecId"] = e] ]
\* _repopulate_tree: the rows, and the ExecId -> row map rebuilt from the list
\* variant: the rows are rebuilt but the ExecId -> row map is left empty
RepopulateTreeNoMap(tr) ==
    [ tree |-> [i \in 1..Len(tr) |-> FormatTradeForDisplay(tr[i])],
      map |-> [e \in {} |-> 0] ]
\* _repopulate_tree as written
RepopulateTree(tr) ==
    [ tree |-> [i \in 1..Len(tr) |-> FormatTradeForDisplay(tr[i])],
      map |-> [e \in {tr[i]["ExecId"] : i \in {j \in 1..Len(tr) : "ExecId" \in DOMAIN tr[j]}}
                 |-> CHOOSE i \in 1..Len(tr) :
                       /\ "ExecId" \in DOMAIN tr[i] /\ tr[i]["ExecId"] = e
                       /\ \A k \in (i+1)..Len(tr) :
                            ~("ExecId" \in DOMAIN tr[k] /\ tr[k]["ExecId"] = e)] ]

\* variant: a selected column always sorts ascending
SortByColumnAscending(tr, sc, sr, col) ==
    LET sorted == ListSort(tr, col, FALSE)
    IN  [ trades |-> sorted, sort_column |-> col, sort_reverse |-> FALSE,
          view |-> RepopulateTree(sorted) ]
\* sort_by_column(col): the new direction, the sorted list, the rebuilt tree
SortByColumn(tr, sc, sr, col) ==
    LET reverse == IF sc = col THEN ~sr ELSE FALSE
        sorted == ListSort(tr, col, reverse)
    IN  [ trades |-> sorted, sort_column |-> col, sort_reverse |-> reverse,
          view |-> RepopulateTree(sorted) ]

-----------------------------------------------------------------------------
(* Reconciliation: the updates add_trade_to_table and update_trade_financials
   hand to the owner thread *)

\* variant: the known-ExecId test is left out
AddTradeSkipsNoDedup(exec_id, ids) == exec_id = "" \/ exec_id = None
\* line 513: "if not exec_id or exec_id in self.trade_exec_ids: return"
AddTradeSkips(exec_id, ids) == exec_id = "" \/ exec_id = None \/ exec_id \in ids

\* variant: the list is replaced by the new record
InsertTradeAlone(tr, trade_data) == << trade_data >>
\* line 515: self.trades.insert(0, trade_data)
InsertTrade(tr, trade_data) == << trade_data >> \o tr

\* next((t for t in self.trades if t.get("ExecId") == exec_id), None): its index
FindTrade(tr, exec_id) ==
    LET hits == {i \in 1..Len(tr) : Get(tr[i], "ExecId") = exec_id}
    IN  IF hits = {} THEN 0 ELSE CHOOSE i \in hits : \A j \in hits : i <= j

\* self.exec_id_to_tree_id.get(exec_id): 0 for None
TreeId(map, exec_id) == IF exec_id \in DOMAIN map THEN map[exec_id] ELSE 0

\* variant: the P&L is stored as reported
PnlAsReported(pnl) == pnl
\* line 525: the sentinel "unset" P&L is stored as 0.0
PnlToStore(pnl) == IF pnl >= FloatMax THEN 0 ELSE pnl

\* lines 522-527: the list after the update, and whether a record was found
\* variant: an unmatched commission lands on the first record
UpdateTradeFinancialsFirstRow(tr, map, exec_id, commission, pnl) ==
    LET hit == FindTrade(tr, exec_id)
        i == IF hit = 0 /\ tr # << >> THEN 1 ELSE hit
    IN  IF i # 0
        THEN [ found |-> TRUE, index |-> i, tree_id |-> i,
               trades |-> [tr EXCEPT ![i] =
                             [@ EXCEPT !["Commission"] = commission,
                                       !["Realized P&L"] = PnlToStore(pnl)]] ]
        ELSE [ found |-> FALSE, index |-> 0, tree_id |-> 0, trades |-> tr ]
\* variant: the commission is accumulated instead of assigned
UpdateTradeFinancialsAdds(tr, map, exec_id, commission, pnl) ==
    LET i == FindTrade(tr, exec_id)
        tree_id == TreeId(map, exec_id)
    IN  IF i # 0 /\ tree_id # 0
        THEN [ found |-> TRUE, index |-> i, tree_id |-> tree_id,
               trades |-> [tr EXCEPT ![i] =
                             [@ EXCEPT !["Commission"] = @ + commission,
                                       !["Realized P&L"] = PnlToStore(pnl)]] ]
        ELSE [ found |-> FALSE, index |-> 0, tree_id |-> 0, trades |-> tr ]
\* variant: the commission and the P&L are written to every record
UpdateTradeFinancialsAllRows(tr, map, exec_id, commission, pnl) ==
    LET i == FindTrade(tr, exec_id)
        tree_id == TreeId(map, exec_id)
    IN  IF i # 0 /\ tree_id # 0
        THEN [ found |-> TRUE, index |-> i, tree_id |-> tree_id,
               trades |-> [j \in 1..Len(tr) |->
                             [tr[j] EXCEPT !["Commission"] = commission,
                                           !["Realized P&L"] = PnlToStore(pnl)]] ]
        ELSE [ found |-> FALSE, index |-> 0, tree_id |-> 0, trades |-> tr ]
\* update_trade_financials._update as written
UpdateTradeFinancials(tr, map, exec_id, commission, pnl) ==
    LET i == FindTrade(tr, exec_id)
        tree_id == TreeId(map, exec_id)
    IN  IF i # 0 /\ tree_id # 0
        THEN [ found |-> TRUE, index |-> i, tree_id |-> tree_id,
               trades |-> [tr EXCEPT ![i] =
                             [@ EXCEPT !["Commission"] = commission,
                                       !["Realized P&L"] = PnlToStore(pnl)]] ]
        ELSE [ found |-> FALSE, index |-> 0, tree_id |-> 0, trades |-> tr ]

\* history: two updates carry the same commission event
SameCommission(a, b) ==
    /\ a.kind = "financials" /\ b.kind = "financials"
    /\ a.exec_id = b.exec_id /\ a.commission = b.commission /\ a.pnl = b.pnl

\* the threads that have mutated each piece of shared state
Wrote(what, thread) ==
    [c \in DOMAIN h_writers |->
        IF c \in what THEN h_writers[c] \cup {thread} ELSE h_writers[c]]

\* IBApp.execDetails, on the transport thread: builds the dict and hands the
\* update to the owner thread
ExecDetails(x) ==
    /\ ~closed
    /\ Len(queue) < MaxQueue
    /\ queue' = Append(queue, [kind |-> "add_trade", trade_data |-> TradeData(x)])
    /\ h_exec_delivered' = h_exec_delivered \cup ({x.execId} \ {""})
    /\ UNCHANGED << toolVars,
                    tradeVars, balanceVars, connVars, h_first, h_applied, h_dropped, h_last,
                    h_writers >>

\* IBApp.commissionReport, on the transport thread
CommissionReport(c) ==
    /\ ~closed
    /\ Len(queue) < MaxQueue
    /\ queue' = Append(queue, [kind |-> "financials", exec_id |-> c.execId,
                               commission |-> c.commission, pnl |-> c.realizedPNL,
                               h_after_exec |-> c.execId \in h_exec_delivered])
    /\ UNCHANGED << toolVars,
                    tradeVars, balanceVars, connVars, tradeHist, h_last, h_writers >>

\* add_trade_to_table._update, on the owner thread
AddTradeUpdate ==
    /\ ~closed
    /\ queue # << >>
    /\ Head(queue).kind = "add_trade"
    /\ LET trade_data == Head(queue).trade_data
           exec_id == Get(trade_data, "ExecId")
           inserted == InsertTrade(trades, trade_data)
           s == SortByColumn(inserted, sort_column, sort_reverse, sort_column)
       IN  IF AddTradeSkips(exec_id, trade_exec_ids)
           THEN UNCHANGED << tradeVars, h_writers >>
           ELSE /\ trade_exec_ids' = trade_exec_ids \cup {exec_id}
                /\ trades_file' = inserted
                /\ trades' = s.trades
                /\ sort_column' = s.sort_column
                /\ sort_reverse' = s.sort_reverse
                /\ tree' = s.view.tree
                /\ exec_id_to_tree_id' = s.view.map
                /\ h_writers' = Wrote({"trades", "trade_exec_ids", "ui"}, "owner")
    /\ h_first' = LET e == Head(queue).trade_data["ExecId"]
                  IN  IF e = "" \/ e \in DOMAIN h_first THEN h_first
                      ELSE (e :> Head(queue).trade_data) @@ h_first
    /\ queue' = Tail(queue)
    /\ h_last' = << Head(queue), FALSE >>
    /\ UNCHANGED << toolVars,
                    balanceVars, connVars, h_exec_delivered, h_applied, h_dropped >>

\* update_trade_financials._update, on the owner thread
FinancialsUpdate ==
    /\ ~closed
    /\ queue # << >>
    /\ Head(queue).kind = "financials"
    /\ LET u == Head(queue)
           r == UpdateTradeFinancials(trades, exec_id_to_tree_id, u.exec_id,
                                      u.commission, u.pnl)
       IN  IF r.found
           THEN /\ trades' = r.trades
                /\ trades_file' = r.trades
                /\ tree' = [tree EXCEPT ![r.tree_id] =
                                FormatTradeForDisplay(r.trades[r.index])]
                /\ h_writers' = Wrote({"trades", "ui"}, "owner")
                /\ UNCHANGED << trade_exec_ids, exec_id_to_tree_id, sort_column,
                                sort_reverse >>
           ELSE UNCHANGED << tradeVars, h_writers >>
    /\ LET e == Head(queue).exec_id
           has == \E i \in 1..Len(trades) : trades[i]["ExecId"] = e
       IN  /\ h_applied' = IF has THEN h_applied \cup {e} ELSE h_applied
           /\ h_dropped' = IF has THEN h_dropped ELSE h_dropped \cup {e}
    /\ queue' = Tail(queue)
    /\ h_last' = << Head(queue), SameCommission(h_last[1], Head(queue)) >>
    /\ UNCHANGED << toolVars,
                    balanceVars, connVars, h_first, h_exec_delivered >>

\* the columns whose heading the user clicks
ClickColumns == {"Time", "Commission"}

\* a click on a column heading: sort_by_column(col), on the owner thread
SortClick(col) ==
    /\ ~closed
    /\ LET s == SortByColumn(trades, sort_column, sort_reverse, col)
       IN  /\ trades' = s.trades
           /\ sort_column' = s.sort_column
           /\ sort_reverse' = s.sort_reverse
           /\ tree' = s.view.tree
           /\ exec_id_to_tree_id' = s.view.map
    /\ h_last' = << [kind |-> "sort", col |-> col, before |-> trades,
                     column |-> sort_column, reverse |-> sort_reverse], FALSE >>
    /\ h_writers' = Wrote({"trades", "ui"}, "owner")
    /\ UNCHANGED << toolVars,
                    trade_exec_ids, trades_file, queue, balanceVars, connVars,
                    tradeHist >>

-----------------------------------------------------------------------------
(* Balance change-log: the account-summary callback *)

Accounts == {"U1", "U2"}

\* the value strings the transport may report for NetLiquidation
BalanceStrings == {"100", "100.00", "150.5", "abc"}

\* float(s) raises ValueError
FloatRaises(s) == s \notin {"100", "100.00", "150.5"}

\* float(s), in cents
FloatOf(s) ==
    CASE s = "100" -> 10000
      [] s = "100.00" -> 10000
      [] s = "150.5" -> 15050
      [] OTHER -> 0

\* lines 409-413: the most recent record of the account (0 when there is none)
LatestEntry(history, account) ==
    LET hits == {i \in 1..Len(history) : Get(history[i], "Account") = account}
    IN  IF hits = {} THEN 0 ELSE CHOOSE i \in hits : \A j \in hits : j <= i

\* line 414: whether log_account_balance appends a record
\* variant: compares with the last record of any account
ShouldLogAnyAccount(history, account, new_balance) ==
    history = << >> \/ history[Len(history)].Balance # new_balance
\* line 414 as written
ShouldLog(history, account, new_balance) ==
    LET latest == LatestEntry(history, account)
    IN  latest = 0 \/ history[latest].Balance # new_balance

\* variant: the new record takes the place of the account's latest one
LogAccountBalanceInPlace(history, account, balance_str, t) ==
    IF FloatRaises(balance_str) THEN history
    ELSE IF ShouldLog(history, account, FloatOf(balance_str))
         THEN LET latest == LatestEntry(history, account)
                  record == [Account |-> account, DateTime |-> t,
                             Balance |-> FloatOf(balance_str)]
              IN  IF latest = 0 THEN Append(history, record)
                  ELSE [history EXCEPT ![latest] = record]
         ELSE history
\* lines 407-417: the history log_account_balance saves
LogAccountBalance(history, account, balance_str, t) ==
    IF FloatRaises(balance_str) THEN history
    ELSE IF ShouldLog(history, account, FloatOf(balance_str))
         THEN Append(history, [Account |-> account, DateTime |-> t,
                               Balance |-> FloatOf(balance_str)])
         ELSE history

\* the records of one account, in log order, and their Balance values
RECURSIVE ForAccount(_, _)
ForAccount(history, account) ==
    IF history = << >> THEN << >>
    ELSE IF Head(history).Account = account
         THEN << Head(history) >> \o ForAccount(Tail(history), account)
         ELSE ForAccount(Tail(history), account)

Balances(history) == [i \in 1..Len(history) |-> history[i].Balance]

Deliveries == Len(h_delivered["U1"]) + Len(h_delivered["U2"])

-----------------------------------------------------------------------------
(* Python floats: IEEE 754 binary64, round to nearest, ties to even *)
(* A float that is not negative is a pair: a natural number, written in      *)
(* limbs of 14 bits with the most significant first, and the exponent of 2   *)
(* it is multiplied by. The number has at most 53 significant bits. Products *)
(* and quotients are worked out exactly on the limbs and then rounded.       *)

\* the width of the significand of a binary64
Precision == 53

\* the width of a limb and the number it counts to
LimbBits == 14
Base == 16384

RECURSIVE TwoToThe(_)
TwoToThe(n) == IF n = 0 THEN 1 ELSE 2 * TwoToThe(n - 1)

\* the powers of 2 that fit a machine integer
Powers == [n \in 0..30 |-> TwoToThe(n)]
Pow2(n) == Powers[n]

\* the limb at place j, 0 outside the limbs
LimbAt(limbs, j) == IF 1 <= j /\ j <= Len(limbs) THEN limbs[j] ELSE 0

\* some limb from place j on is not zero
AnySet(limbs, j) == \E i \in j..Len(limbs) : i >= 1 /\ limbs[i] # 0

\* without the leading zero limbs
Strip(limbs) ==
    IF ~AnySet(limbs, 1) THEN << >>
    ELSE LET first == CHOOSE i \in 1..Len(limbs) :
                          limbs[i] # 0 /\ \A j \in 1..(i - 1) : limbs[j] = 0
         IN  SubSeq(limbs, first, Len(limbs))

\* the number of bits of a limb that is not zero
BitLength(limb) ==
    CHOOSE n \in 1..LimbBits : Pow2(n - 1) <= limb /\ limb < Pow2(n)

Float64(limbs, exp) == << limbs, exp >>

\* a natural number below 2^28 as a float
FromInt(n) == Float64(Strip(<< n \div Base, n % Base >>), 0)

\* x * 2^n, which is exact
Scaled(x, n) == Float64(x[1], x[2] + n)

\* the limbs of the first i limbs times k < 2^17 plus the carry of the limbs
\* that follow them
RECURSIVE TimesLimbs(_, _, _, _)
TimesLimbs(limbs, i, k, carry) ==
    IF i = 0 THEN << carry \div Base, carry % Base >>
    ELSE Append(TimesLimbs(limbs, i - 1, k, (limbs[i] * k + carry) \div Base),
                (limbs[i] * k + carry) % Base)

\* the limbs of the exact product of the limbs and k
Product(limbs, k) == Strip(TimesLimbs(limbs, Len(limbs), k, 0))

\* the nearest binary64 of limbs * 2^exp, where sticky tells that the exact
\* value lies above it by less than 2^exp: the bits after the first 53 are
\* cleared, and the last bit kept is raised by one when they come to more
\* than half of it, or to half of it and the bit is set
RoundNearestEven(limbs, sticky, exp) ==
    LET drop == LimbBits * (Len(limbs) - 1) + BitLength(limbs[1]) - Precision
        whole == drop \div LimbBits
        part == drop % LimbBits
        last == Len(limbs) - whole
        unit == Pow2(part)
        low == limbs[last] % unit
        guard == IF part > 0 THEN low \div Pow2(part - 1)
                 ELSE limbs[last + 1] \div Pow2(LimbBits - 1)
        rest == \/ sticky
                \/ IF part > 0
                   THEN low % Pow2(part - 1) # 0 \/ AnySet(limbs, last + 1)
                   ELSE \/ limbs[last + 1] % Pow2(LimbBits - 1) # 0
                        \/ AnySet(limbs, last + 2)
        up == guard = 1 /\ (rest \/ (limbs[last] \div unit) % 2 = 1)
        kept == [j \in 1..last |-> IF j = last THEN limbs[j] - low ELSE limbs[j]]
    IN  IF limbs = << >> \/ drop <= 0 THEN Float64(limbs, exp)
        ELSE Float64(IF up THEN Strip(TimesLimbs(kept, last, 1, unit)) ELSE kept,
                     exp + LimbBits * whole)

\* x * k in binary64 for a natural number k < 2^17
FloatTimes(x, k) == RoundNearestEven(Product(x[1], k), FALSE, x[2])

\* the zero limbs a division puts after the dividend before it rounds: with
\* a divisor below 2^17 the quotient has more than Precision + 2 bits
DivisionLimbs == 6

\* the quotient limbs and the remainder of the first i limbs of the dividend,
\* the zero limbs after it included, by k
RECURSIVE LongDivision(_, _, _)
LongDivision(limbs, i, k) ==
    IF i = 0 THEN << << >>, 0 >>
    ELSE LET before == LongDivision(limbs, i - 1, k)
             v == before[2] * Base + LimbAt(limbs, i)
         IN  << Append(before[1], v \div k), v % k >>

Quotient(limbs, k) == LongDivision(limbs, Len(limbs) + DivisionLimbs, k)
RoundedQuotient(division, exp) ==
    RoundNearestEven(Strip(division[1]), division[2] # 0, exp)

\* x / k in binary64 for a natural number 0 < k < 2^17
FloatOver(x, k) ==
    RoundedQuotient(Quotient(x[1], k), x[2] - LimbBits * DivisionLimbs)

\* the limbs of x with the zero limbs that bring its exponent down to exp, for
\* exponents that are multiples of LimbBits, as those of whole numbers and of
\* their quotients are
Padded(x, exp) == Strip(x[1] \o [i \in 1..((x[2] - exp) \div LimbBits) |-> 0])

\* a < b for numbers written in limbs without leading zeros
LimbsLess(a, b) ==
    \/ Len(a) < Len(b)
    \/ /\ Len(a) = Len(b)
       /\ \E i \in 1..Len(a) : a[i] < b[i] /\ \A j \in 1..(i - 1) : a[j] = b[j]

\* x < y for floats whose exponents are multiples of LimbBits
FloatLess(x, y) ==
    LET exp == IF x[2] < y[2] THEN x[2] ELSE y[2]
    IN  LimbsLess(Padded(x, exp), Padded(y, exp))

\* the number written by the first i limbs
RECURSIVE Horner(_, _)
Horner(limbs, i) ==
    IF i <= 0 THEN 0 ELSE Horner(limbs, i - 1) * Base + limbs[i]

\* limbs * 2^exp for exp <= 0 in three parts: its whole part (below 2^30),
\* the first bit after the point, and whether any bit after that is set
Parts(limbs, exp) ==
    LET whole == (-exp) \div LimbBits
        part == (-exp) % LimbBits
        last == Len(limbs) - whole
        limb == LimbAt(limbs, last)
    IN  << IF last <= 0 THEN 0
           ELSE Horner(limbs, last - 1) * Pow2(LimbBits - part)
                    + limb \div Pow2(part),
           IF part > 0 THEN (limb \div Pow2(part - 1)) % 2
           ELSE LimbAt(limbs, last + 1) \div Pow2(LimbBits - 1),
           IF part > 0
           THEN limb % Pow2(part - 1) # 0 \/ AnySet(limbs, last + 1)
           ELSE \/ LimbAt(limbs, last + 1) % Pow2(LimbBits - 1) # 0
                \/ AnySet(limbs, last + 2) >>

\* the same for a float
FloatParts(x) ==
    IF x[2] > 0 THEN << Horner(x[1], Len(x[1])) * Pow2(x[2]), 0, FALSE >>
    ELSE Parts(x[1], x[2])

\* math.floor(x) and math.ceil(x)
FloatFloor(x) == FloatParts(x)[1]
RoundedUp(parts) == parts[1] + (IF parts[2] = 1 \/ parts[3] THEN 1 ELSE 0)
FloatCeil(x) == RoundedUp(FloatParts(x))

\* the nearest whole number, ties to even
NearestEven(parts) ==
    IF parts[2] = 1 /\ (parts[3] \/ parts[1] % 2 = 1)
    THEN parts[1] + 1 ELSE parts[1]

\* the ":.2f" of x as a number of hundredths: the nearest to the exact value
\* of x, ties to even
Hundredths(x) == NearestEven(FloatParts(Float64(Product(x[1], 100), x[2])))

-----------------------------------------------------------------------------
(* Position-size calculator: update_calculations                             *)
(* Money is held in cents and RiskPrct in hundredths of a percent. The       *)
(* numbers typed into the calculator are multiples of 0.25 below 32768,      *)
(* which a float holds exactly; the quotients and products the code forms of *)
(* them are rounded as Python rounds them.                                   *)

\* what DoubleVar.get() reads: a number, or a text on which it raises TclError
Number(v) == [parses |-> TRUE, value |-> v]
Unparseable == [parses |-> FALSE, value |-> 0]

Abs(x) == IF x < 0 THEN -x ELSE x

\* math.ceil(n / d) for d > 0, where n / d is exact in a float
Ceil(n, d) == -((-n) \div d)

\* round(n / d, 2), in hundredths: the nearest, ties to even
Round(n, d) ==
    LET q == n \div d
        r == n - q * d
    IN  IF 2 * r < d THEN q
        ELSE IF 2 * r > d THEN q + 1
        ELSE IF q % 2 = 0 THEN q ELSE q + 1

\* an amount in quarters: the float of the amount is Quarters(amount) * 2^-2
Quarters(amount) == amount \div 25

\* a literal with one significant digit: the float nearest to 1 / n
OneOver(n) == FloatOver(FromInt(1), n)

\* line 332: 0.0001 <= risk_prct <= 1
InRange(risk_prct) ==
    ~FloatLess(risk_prct, OneOver(10000)) /\ ~FloatLess(FromInt(1), risk_prct)

\* variant: the fraction typed is used whatever it is
OrOnePercentAsTyped(positive, risk_prct) ==
    IF positive THEN risk_prct ELSE OneOver(100)
\* line 332: risk_prct, or 0.01 when it is out of range (a float that is
\* not positive is)
OrOnePercent(positive, risk_prct) ==
    IF positive /\ InRange(risk_prct) THEN risk_prct ELSE OneOver(100)

\* lines 331-332: the risk fraction, 1% when out of [0.0001, 1]. The text of
\* the entry has two decimals and reads as the float nearest to risk / 100;
\* the quotient is written for the size of the entry, its sign going to
\* OrOnePercent
RiskFraction(risk) ==
    OrOnePercent(risk > 0, FloatOver(FloatOver(FromInt(Abs(risk)), 100), 100))

\* line 333: acc_1r, the float of balance * risk_prct, written for the size
\* of the balance
AccountRiskAmount(balance, risk) ==
    Scaled(FloatTimes(RiskFraction(risk), Quarters(Abs(balance))), -2)

\* line 334
RiskPerShare(entry, stop) ==
    IF entry > 0 /\ stop > 0 THEN Abs(entry - stop) ELSE 0

\* variant: the quotient is rounded up to the next whole share
ShareSizeRoundedUp(balance, acc_1r, risk_per_share) ==
    IF risk_per_share > 0
    THEN LET quotient == Scaled(FloatOver(acc_1r, Quarters(risk_per_share)), 2)
         IN  IF balance >= 0 THEN FloatCeil(quotient) ELSE -FloatFloor(quotient)
    ELSE 0
\* variant: the quotient is taken whatever the risk per share (over a cent
\* when it is zero)
ShareSizeNoGuard(balance, acc_1r, risk_per_share) ==
    LET quotient == IF risk_per_share > 0
                    THEN Scaled(FloatOver(acc_1r, Quarters(risk_per_share)), 2)
                    ELSE FloatTimes(acc_1r, 100)
    IN  IF balance >= 0 THEN FloatFloor(quotient) ELSE -FloatCeil(quotient)
\* line 335: math.floor(acc_1r / risk_per_share), acc_1r being the size of
\* balance * risk_prct, which has the sign of balance
ShareSize(balance, acc_1r, risk_per_share) ==
    IF risk_per_share > 0
    THEN LET quotient == Scaled(FloatOver(acc_1r, Quarters(risk_per_share)), 2)
         IN  IF balance >= 0 THEN FloatFloor(quotient) ELSE -FloatCeil(quotient)
    ELSE 0

\* lines 338, 342 and 349: the reward-risk ratio shown, in hundredths
RewardRisk(potential_per_share, risk_per_share) ==
    IF risk_per_share > 0
    THEN FloatFloor(FloatTimes(FloatOver(FromInt(Quarters(potential_per_share)),
                                         Quarters(risk_per_share)), 100))
    ELSE 0

\* lines 340, 342 and 348: the account at risk shown, in hundredths of a
\* percent
AccountAtRisk(position_size, balance) ==
    IF balance > 0
    THEN FloatFloor(FloatTimes(FloatTimes(
             Scaled(FloatOver(FromInt(position_size), Quarters(balance)), 2),
             100), 100))
    ELSE 0

\* lines 332-350: the seven outputs for parsed inputs
Calculate(balance, risk, entry, stop, target) ==
    LET acc_1r == AccountRiskAmount(balance, risk)
        risk_per_share == RiskPerShare(entry, stop)
        share_size == ShareSize(balance, acc_1r, risk_per_share)
        position_size == Ceil(entry * share_size, 100)
        potential_per_share == IF target > 0 THEN Abs(target - entry) ELSE 0
    IN  ("Acc1R" :> (IF balance < 0 THEN -1 ELSE 1) * Hundredths(acc_1r)) @@
        ("Risk-per-Share" :> risk_per_share) @@
        ("ShareSizeToBuy" :> share_size) @@
        ("PositionSize" :> position_size) @@
        ("AccountAtRiskPrct" :> AccountAtRisk(position_size, balance)) @@
        ("Reward-Risk" :> RewardRisk(potential_per_share, risk_per_share)) @@
        ("Potential" :> potential_per_share * share_size)

\* the balances the calculator is looked at with
CalcBalances == {0, 250000, 1000000, -1000000}

\* what the user may leave in the Risk (%) entry and in a price entry
RiskTexts ==
    {Number(100), Number(25), Number(0), Number(1), Number(10000),
     Number(10001), Number(-100), Unparseable}
PriceTexts == {Number(0), Number(4800), Number(5000), Number(5500), Unparseable}

\* the close prices a venue may answer, in tenths of a cent
Quotes == {50500}

\* the prices update_entry_price sets for a quote
QuotePrices == {Round(q, 10) + d : q \in Quotes, d \in {-100, 0, 100}}

\* the inputs update_calculations is run on
CalcGrid ==
    LET balances == CalcBalances \cup {FloatOf(s) : s \in BalanceStrings}
        risks == {v.value : v \in RiskTexts}
        prices == {v.value : v \in PriceTexts}
    IN  {<< b, r, e, s, t >> : b \in balances, r \in risks,
                               e \in prices, s \in prices, t \in prices}
        \cup {<< b, 100, e, s, t >> : b \in CalcBalances,
                                      e \in prices \cup QuotePrices,
                                      s \in prices \cup QuotePrices,
                                      t \in prices \cup QuotePrices}

\* Calculate on the grid, worked out once
Calculated ==
    [in \in CalcGrid |-> Calculate(in[1], in[2], in[3], in[4], in[5])]

\* the outputs for inputs of the grid
Outputs(balance, risk, entry, stop, target) ==
    Calculated[<< balance, risk, entry, stop, target >>]

\* variant: the outputs are computed from 0 for an input that does not parse
UpdateCalculationsFromZero(results, balance, risk, entry, stop, target) ==
    Outputs(balance, risk.value, entry.value, stop.value, target.value)
\* update_calculations: the outputs it leaves; a TclError on line 331 leaves
\* them as they are
UpdateCalculations(results, balance, risk, entry, stop, target) ==
    IF risk.parses /\ entry.parses /\ stop.parses /\ target.parses
    THEN Outputs(balance, risk.value, entry.value, stop.value, target.value)
    ELSE results

\* the values of the result variables after _setup_calculator_ui
InitialResults ==
    ("Acc1R" :> 0) @@ ("Risk-per-Share" :> 0) @@ ("ShareSizeToBuy" :> 0) @@
    ("PositionSize" :> 0) @@ ("AccountAtRiskPrct" :> 0) @@ ("Reward-Risk" :> 0) @@
    ("Potential" :> 0)

-----------------------------------------------------------------------------
(* Balance change-log: the account-summary callback, continued *)

\* IBApp.managedAccounts -> set_managed_accounts, run on the transport thread
ManagedAccounts(accounts) ==
    /\ ~closed
    /\ managed_accounts' = accounts
    /\ SelectedAccount' = IF accounts # << >> /\ SelectedAccount = ""
                          THEN accounts[1] ELSE SelectedAccount
    /\ h_writers' = Wrote({"ui"}, "transport")
    /\ UNCHANGED << toolVars,
                    tradeVars, queue, balance_file, now, AccountBalance,
                    h_delivered, connVars, tradeHist, h_last >>

\* IBApp.accountSummary, run on the transport thread: update_account_balance,
\* then log_account_balance (load, scan, append, save); float(value) raising
\* in update_account_balance ends the callback before the log is reached
AccountSummary(account, tag, value) ==
    /\ ~closed
    /\ Deliveries < MaxDeliveries
    /\ IF tag # "NetLiquidation"
       THEN UNCHANGED << AccountBalance, calc_result_vars, balance_file,
                         h_delivered, h_writers >>
       ELSE LET sets == account = SelectedAccount /\ ~FloatRaises(value)
                aborted == account = SelectedAccount /\ FloatRaises(value)
                saved == IF aborted THEN balance_file
                         ELSE LogAccountBalance(balance_file, account, value, now)
            IN  /\ AccountBalance' = IF sets THEN FloatOf(value) ELSE AccountBalance
                /\ calc_result_vars' =
                      IF sets
                      THEN UpdateCalculations(calc_result_vars, FloatOf(value),
                                              RiskPrct, Entry, Stop, Target)
                      ELSE calc_result_vars
                /\ balance_file' = saved
                /\ h_delivered' =
                      IF FloatRaises(value) THEN h_delivered
                      ELSE [h_delivered EXCEPT ![account] = Append(@, FloatOf(value))]
                /\ h_writers' =
                      Wrote((IF sets THEN {"ui"} ELSE {}) \cup
                            (IF saved # balance_file THEN {"balance_log"} ELSE {}),
                            "transport")
    /\ UNCHANGED << windowVars, calcVars, lookupHist, loadVars,
                    tradeVars, queue, now, SelectedAccount, managed_accounts,
                    connVars, tradeHist, h_last >>

\* a second passes
Tick ==
    /\ ~closed
    /\ now < MaxClock
    /\ now' = now + 1
    /\ UNCHANGED << toolVars,
                    tradeVars, queue, balance_file, AccountBalance, SelectedAccount,
                    managed_accounts, h_delivered, connVars, tradeHist, h_last,
                    h_writers >>

-----------------------------------------------------------------------------
(* Balance history window *)

HistoryColumns == << "Account", "DateTime", "Balance" >>

\* BalanceHistoryWindow.sort_by_column(col): the new direction and the list
HistorySortByColumn(rows, sc, sr, col) ==
    LET reverse == IF sc = col THEN ~sr ELSE FALSE
    IN  [ history |-> ListSort(rows, col, reverse), sort_column |-> col,
          sort_reverse |-> reverse ]

\* show_balance_history: BalanceHistoryWindow.__init__ loads the log and sorts
\* it by the initial column, "DateTime", which turns the direction over
ShowBalanceHistory ==
    /\ ~closed
    /\ ~history_open
    /\ LET s == HistorySortByColumn(balance_file, "DateTime", TRUE, "DateTime")
       IN  /\ window_history' = s.history
           /\ history_sort_column' = s.sort_column
           /\ history_sort_reverse' = s.sort_reverse
    /\ history_open' = TRUE
    /\ h_last' = << [kind |-> "history_sort", col |-> "DateTime",
                     before |-> balance_file, column |-> "DateTime",
                     reverse |-> TRUE], FALSE >>
    /\ UNCHANGED << tradeVars, tradeHist, queue, balanceVars, connVars, h_writers,
                    calcVars, calc_result_vars, lookupHist, loadVars >>

\* a click on a heading of the balance history window
HistorySortClick(col) ==
    /\ ~closed
    /\ history_open
    /\ LET s == HistorySortByColumn(window_history, history_sort_column,
                                    history_sort_reverse, col)
       IN  /\ window_history' = s.history
           /\ history_sort_column' = s.sort_column
           /\ history_sort_reverse' = s.sort_reverse
    /\ h_last' = << [kind |-> "history_sort", col |-> col,
                     before |-> window_history, column |-> history_sort_column,
                     reverse |-> history_sort_reverse], FALSE >>
    /\ UNCHANGED << history_open, tradeVars, tradeHist, queue, balanceVars,
                    connVars, h_writers, calcVars, calc_result_vars, lookupHist,
                    loadVars >>

\* the user closes the balance history window: the object is gone, the next
\* show_balance_history builds a new one
CloseHistoryWindow ==
    /\ history_open
    /\ history_open' = FALSE
    /\ window_history' = << >>
    /\ history_sort_column' = "DateTime"
    /\ history_sort_reverse' = TRUE
    /\ UNCHANGED << tradeVars, tradeHist, queue, balanceVars, connVars, h_last,
                    h_writers, calcVars, calc_result_vars, lookupHist, loadVars >>

-----------------------------------------------------------------------------
(* Calculator inputs and the price lookup *)

CalcInputs == {"RiskPrct", "Entry", "Stop", "Target"}


\* the user edits an entry of the calculator: the write trace of the variable
\* (line 281) runs update_calculations
TypeInput(name, v) ==
    /\ ~closed
    /\ RiskPrct' = IF name = "RiskPrct" THEN v ELSE RiskPrct
    /\ Entry' = IF name = "Entry" THEN v ELSE Entry
    /\ Stop' = IF name = "Stop" THEN v ELSE Stop
    /\ Target' = IF name = "Target" THEN v ELSE Target
    /\ calc_result_vars' = UpdateCalculations(calc_result_vars, AccountBalance,
                                              RiskPrct', Entry', Stop', Target')
    /\ UNCHANGED << Ticker, tradeVars, tradeHist, queue, balanceVars, connVars,
                    h_last, h_writers, windowVars, lookupHist, loadVars >>

\* the user edits the Ticker entry (no trace on this variable)
TypeTicker(t) ==
    /\ ~closed
    /\ Ticker' = t
    /\ UNCHANGED << RiskPrct, Entry, Stop, Target, calc_result_vars, tradeVars,
                    tradeHist, queue, balanceVars, connVars, h_last, h_writers,
                    windowVars, lookupHist, loadVars >>

\* line 362: the venues of a lookup, in the order they are asked
exchanges == << "NASDAQ", "NYSE", "AMEX", "ARCA" >>

\* what a venue may answer: a close price (in tenths of a cent), None, or an
\* exception of the handler
Answers ==
    {[kind |-> "price", price |-> q] : q \in Quotes}
        \cup {[kind |-> "none", price |-> 0], [kind |-> "error", price |-> 0]}

\* variant: the loop goes on after a price and keeps the last one
VenuesAskedAll(answers) == Len(exchanges)
\* lines 363-373: how many venues the loop asks, stopping at the first price
VenuesAsked(answers) ==
    IF \E i \in 1..Len(exchanges) : answers[i].kind = "price"
    THEN CHOOSE i \in 1..Len(exchanges) :
            /\ answers[i].kind = "price"
            /\ \A j \in 1..(i - 1) : answers[j].kind # "price"
    ELSE Len(exchanges)

\* fetch_ticker_price_from_tv, on its own thread: answers[i] is what venue i
\* would answer; the outcome is handed to the owner thread
FetchTickerPrice(answers) ==
    /\ ~closed
    /\ Len(queue) < MaxQueue
    /\ IF Ticker = ""
       THEN /\ queue' = Append(queue, [kind |-> "fetch_warning"])
            /\ h_tried' = << >>
       ELSE LET n == VenuesAsked(answers)
                tried == [i \in 1..n |-> [exchange |-> exchanges[i],
                                          answer |-> answers[i].kind]]
            IN  /\ h_tried' = tried
                /\ queue' = Append(queue,
                              IF answers[n].kind = "price"
                              THEN [kind |-> "entry_price",
                                    price |-> answers[n].price]
                              ELSE [kind |-> "fetch_error"])
    /\ UNCHANGED << h_report, calcVars, calc_result_vars, tradeVars, tradeHist,
                    balanceVars, connVars, h_last, h_writers, windowVars,
                    loadVars >>

\* the outputs after a run of update_calculations for each of the writes in
\* turn, a write being the Entry, Stop and Target that stand after it
RECURSIVE AfterWrites(_, _, _, _)
AfterWrites(results, balance, risk, writes) ==
    IF writes = << >> THEN results
    ELSE AfterWrites(UpdateCalculations(results, balance, risk, Head(writes)[1],
                                        Head(writes)[2], Head(writes)[3]),
                     balance, risk, Tail(writes))

\* update_entry_price on the owner thread: Entry, Stop and Target are set in
\* turn, and each write runs update_calculations
EntryPriceUpdate ==
    /\ queue # << >>
    /\ Head(queue).kind = "entry_price"
    /\ LET rounded_price == Round(Head(queue).price, 10)
           entry == Number(rounded_price)
           stop == Number(rounded_price - 100)
           target == Number(rounded_price + 100)
       IN  /\ Entry' = entry
           /\ Stop' = stop
           /\ Target' = target
           /\ calc_result_vars' =
                 AfterWrites(calc_result_vars, AccountBalance, RiskPrct,
                             << << entry, Stop, Target >>,
                                << entry, stop, Target >>,
                                << entry, stop, target >> >>)
    /\ queue' = Tail(queue)
    /\ h_report' = "updated"
    /\ UNCHANGED << Ticker, RiskPrct, h_tried, tradeVars, tradeHist, balanceVars,
                    connVars, h_last, h_writers, windowVars, loadVars >>

\* the messagebox of a lookup that found no price (showerror), or that had no
\* ticker (showwarning), on the owner thread
FetchReportUpdate ==
    /\ queue # << >>
    /\ Head(queue).kind \in {"fetch_error", "fetch_warning"}
    /\ queue' = Tail(queue)
    /\ h_report' = IF Head(queue).kind = "fetch_error" THEN "error" ELSE "warning"
    /\ UNCHANGED << h_tried, calcVars, calc_result_vars, tradeVars, tradeHist,
                    balanceVars, connVars, h_last, h_writers, windowVars,
                    loadVars >>

-----------------------------------------------------------------------------
(* Connection and the auto-refresh timer *)

\* variant: the field is cleared without after_cancel
StopAutoRefreshKeepsTimer(job, tms) == [ job |-> 0, timers |-> tms ]
\* stop_auto_refresh: after_cancel of the job the field names, then None
StopAutoRefresh(job, tms) ==
    [ job |-> 0, timers |-> IF job # 0 THEN tms \ {job} ELSE tms ]

\* whether stop_auto_refresh cancels a timer that is still pending
Cancels(job, tms) == job # 0 /\ job \in tms

\* the id root.after returns: one that names no timer, pending or held
FreshTimer(job, tms) ==
    CHOOSE n \in 1..MaxTimers :
        /\ n \notin tms \cup {job}
        /\ \A m \in 1..(n - 1) : m \in tms \cup {job}

\* refresh_trades: reqExecutions is sent only while connected
RefreshTrades(conn, req) == IF conn THEN (req + 1) % (MaxReq + 1) ELSE req

\* variant: start_auto_refresh without the stop_auto_refresh call
StartAutoRefreshNoCancel(job, tms, enabled, conn, req) ==
    IF enabled /\ conn
    THEN [ job |-> FreshTimer(job, tms), timers |-> tms \cup {FreshTimer(job, tms)},
           req |-> RefreshTrades(conn, req) ]
    ELSE [ job |-> job, timers |-> tms, req |-> req ]
\* start_auto_refresh: cancel, then refresh and reschedule while enabled and
\* connected
StartAutoRefresh(job, tms, enabled, conn, req) ==
    LET stopped == StopAutoRefresh(job, tms)
    IN  IF enabled /\ conn
        THEN [ job |-> FreshTimer(job, stopped.timers),
               timers |-> stopped.timers \cup {FreshTimer(job, stopped.timers)},
               req |-> RefreshTrades(conn, req) ]
        ELSE [ job |-> stopped.job, timers |-> stopped.timers, req |-> req ]

IsConnected == ib_app /\ connected

\* connect_to_tws past the "already connected" return; ok is whether
\* ib_app.connect succeeds
ConnectToTws(ok) ==
    /\ ~IsConnected
    /\ checks < MaxChecks
    /\ login_enabled' = FALSE
    /\ ib_app' = TRUE
    /\ connected' = ok
    /\ checks' = checks + 1
    /\ h_closed' = IF ok THEN FALSE ELSE h_closed
    /\ h_fired_offline' = IF ok THEN FALSE ELSE h_fired_offline

\* a click on "Login to TWS"
Login(ok) ==
    /\ ~closed
    /\ login_enabled
    /\ IF IsConnected
       THEN UNCHANGED << login_enabled, ib_app, connected, checks, h_closed,
                         h_fired_offline >>
       ELSE ConnectToTws(ok)
    /\ UNCHANGED << toolVars,
                    tradeVars, queue, balanceVars, refresh_enabled,
                    auto_refresh_enabled, auto_refresh_job, timers,
                    auto_connect_pending, req_executions, closed, h_cancelled,
                    tradeHist, h_last, h_writers >>

\* the root.after(500, connect_to_tws(is_auto_connect=True)) of __init__ fires
AutoConnect(ok) ==
    /\ ~closed
    /\ auto_connect_pending
    /\ auto_connect_pending' = FALSE
    /\ IF IsConnected
       THEN UNCHANGED << login_enabled, ib_app, connected, checks, h_closed,
                         h_fired_offline >>
       ELSE ConnectToTws(ok)
    /\ UNCHANGED << toolVars,
                    tradeVars, queue, balanceVars, refresh_enabled,
                    auto_refresh_enabled, auto_refresh_job, timers,
                    req_executions, closed, h_cancelled, tradeHist, h_last,
                    h_writers >>

\* check_connection_status, 3 s after connect_to_tws
CheckConnectionStatus ==
    /\ ~closed
    /\ checks > 0
    /\ checks' = checks - 1
    /\ IF IsConnected
       THEN LET s == StartAutoRefresh(auto_refresh_job, timers,
                                      auto_refresh_enabled, IsConnected,
                                      req_executions)
            IN  /\ refresh_enabled' = TRUE
                /\ auto_refresh_job' = s.job
                /\ timers' = s.timers
                /\ req_executions' = s.req
                /\ h_cancelled' = (h_cancelled \/ Cancels(auto_refresh_job, timers))
                /\ UNCHANGED queue
       ELSE /\ Len(queue) < MaxQueue
            /\ queue' = Append(queue, [kind |-> "reset", connection_closed |-> FALSE])
            /\ UNCHANGED << refresh_enabled, auto_refresh_job, timers,
                            req_executions, h_cancelled >>
    /\ UNCHANGED << toolVars,
                    tradeVars, balanceVars, ib_app, connected, login_enabled,
                    auto_refresh_enabled, auto_connect_pending, closed, h_closed,
                    h_fired_offline, tradeHist, h_last, h_writers >>

\* the auto-refresh timer fires: start_auto_refresh
TimerFires(id) ==
    /\ ~closed
    /\ id \in timers
    /\ LET s == StartAutoRefresh(auto_refresh_job, timers \ {id},
                                 auto_refresh_enabled, IsConnected, req_executions)
       IN  /\ auto_refresh_job' = s.job
           /\ timers' = s.timers
           /\ req_executions' = s.req
    /\ h_cancelled' = (h_cancelled \/ Cancels(auto_refresh_job, timers \ {id}))
    /\ h_fired_offline' = (h_fired_offline \/ ~IsConnected)
    /\ UNCHANGED << toolVars,
                    tradeVars, queue, balanceVars, ib_app, connected, login_enabled,
                    refresh_enabled, auto_refresh_enabled, checks,
                    auto_connect_pending, closed, h_closed, tradeHist, h_last,
                    h_writers >>

\* SettingsWindow.apply_settings with valid input: save_config, then
\* on_settings_changed reloads the configuration and restarts the timer
OnSettingsChanged(enabled) ==
    /\ ~closed
    /\ auto_refresh_enabled' = enabled
    /\ LET s == StartAutoRefresh(auto_refresh_job, timers, enabled, IsConnected,
                                 req_executions)
       IN  /\ auto_refresh_job' = s.job
           /\ timers' = s.timers
           /\ req_executions' = s.req
    /\ h_cancelled' = (h_cancelled \/ Cancels(auto_refresh_job, timers))
    /\ UNCHANGED << toolVars,
                    tradeVars, queue, balanceVars, ib_app, connected, login_enabled,
                    refresh_enabled, checks, auto_connect_pending, closed, h_closed,
                    h_fired_offline, tradeHist, h_last, h_writers >>

\* a click on "Refresh": refresh_trades
RefreshClick ==
    /\ ~closed
    /\ refresh_enabled
    /\ req_executions' = RefreshTrades(IsConnected, req_executions)
    /\ UNCHANGED << toolVars,
                    tradeVars, queue, balanceVars, ib_app, connected, login_enabled,
                    refresh_enabled, auto_refresh_enabled, auto_refresh_job, timers,
                    checks, auto_connect_pending, closed, h_closed, h_cancelled,
                    h_fired_offline, tradeHist, h_last, h_writers >>

\* IBApp.nextValidId, on the transport thread of a live connection
NextValidId ==
    /\ ~closed
    /\ IsConnected
    /\ req_executions' = (req_executions + 1) % (MaxReq + 1)
    /\ UNCHANGED << toolVars,
                    tradeVars, queue, balanceVars, ib_app, connected, login_enabled,
                    refresh_enabled, auto_refresh_enabled, auto_refresh_job, timers,
                    checks, auto_connect_pending, closed, h_closed, h_cancelled,
                    h_fired_offline, tradeHist, h_last, h_writers >>

\* the connection is lost: IBApp.connectionClosed, on the transport thread,
\* hands the reset to the owner thread
ConnectionClosed ==
    /\ ~closed
    /\ IsConnected
    /\ Len(queue) < MaxQueue
    /\ connected' = FALSE
    /\ queue' = Append(queue, [kind |-> "reset", connection_closed |-> TRUE])
    /\ UNCHANGED << toolVars,
                    tradeVars, balanceVars, ib_app, login_enabled, refresh_enabled,
                    auto_refresh_enabled, auto_refresh_job, timers, checks,
                    auto_connect_pending, req_executions, closed, h_closed,
                    h_cancelled, h_fired_offline, tradeHist, h_last, h_writers >>

\* variant: the reset without the stop_auto_refresh call
ResetKeepsTimer(job, tms) == [ job |-> job, timers |-> tms ]
\* reset_login_button._update: the job and the timers it leaves
ResetStopsTimer(job, tms) == StopAutoRefresh(job, tms)

\* reset_login_button._update, on the owner thread
ResetUpdate ==
    /\ ~closed
    /\ queue # << >>
    /\ Head(queue).kind = "reset"
    /\ queue' = Tail(queue)
    /\ login_enabled' = TRUE
    /\ refresh_enabled' = FALSE
    /\ LET s == ResetStopsTimer(auto_refresh_job, timers)
       IN  /\ auto_refresh_job' = s.job
           /\ timers' = s.timers
    /\ h_cancelled' = (h_cancelled \/ Cancels(auto_refresh_job, timers))
    /\ h_closed' = IF Head(queue).connection_closed /\ ~IsConnected
                   THEN TRUE ELSE h_closed
    /\ h_writers' = Wrote({"ui"}, "owner")
    /\ UNCHANGED << toolVars,
                    tradeVars, balanceVars, ib_app, connected,
                    auto_refresh_enabled, checks, auto_connect_pending,
                    req_executions, closed, h_fired_offline, tradeHist, h_last >>

\* on_closing: stop the timer, disconnect, destroy the window (which drops
\* every callback still registered with Tk)
OnClosing ==
    /\ ~closed
    /\ closed' = TRUE
    /\ auto_refresh_job' = StopAutoRefresh(auto_refresh_job, timers).job
    /\ timers' = {}
    /\ checks' = 0
    /\ auto_connect_pending' = FALSE
    /\ queue' = << >>
    /\ connected' = FALSE
    /\ h_cancelled' = (h_cancelled \/ Cancels(auto_refresh_job, timers))
    /\ UNCHANGED << toolVars,
                    tradeVars, balanceVars, ib_app, login_enabled, refresh_enabled,
                    auto_refresh_enabled, req_executions, h_closed,
                    h_fired_offline, tradeHist, h_last, h_writers >>

-----------------------------------------------------------------------------
(* Initial state: TradeLoggerApp.__init__ *)

\* a record an earlier run saved: execution e2 with its commission applied
StoredTrade ==
    [TradeData(CHOOSE x \in Executions : x.execId = "e2")
        EXCEPT !["Commission"] = 35, !["Realized P&L"] = -40]

\* what load_trades may return: no file, or the file an earlier run wrote
StoredTrades == { << >>, << StoredTrade >> }

\* what accountBalances.json may hold: no file, or one record of an earlier run
StoredBalances == { << >>, << [Account |-> "U1", DateTime |-> 0, Balance |-> 10000] >> }

-----------------------------------------------------------------------------
(* The three store files at launch: load_config, load_trades,                *)
(* load_balance_history and the lines of __init__ that use what they return  *)

ConfigKeys ==
    {"host", "port", "clientId", "auto_refresh_enabled", "auto_refresh_seconds",
     "auto_connect_on_startup"}

\* the defaults of load_config (lines 65 and 77, and the second arguments of
\* config.get on lines 69-74)
DefaultConfig ==
    [host |-> "127.0.0.1", port |-> 7497, clientId |-> 1,
     auto_refresh_enabled |-> TRUE, auto_refresh_seconds |-> 5,
     auto_connect_on_startup |-> FALSE]

\* settings an earlier run saved, all different from the defaults
SavedConfig ==
    [host |-> "10.0.0.5", port |-> 4001, clientId |-> 7,
     auto_refresh_enabled |-> FALSE, auto_refresh_seconds |-> 30,
     auto_connect_on_startup |-> TRUE]

\* a JSON object restricted to some of its keys
Restrict(object, keys) == [k \in keys |-> object[k]]

\* what config.json may be: no file, text that is not JSON, a JSON list or
\* number, or a JSON object holding some of the six keys
ConfigFiles ==
    {[type |-> ty, object |-> Restrict(SavedConfig, {})] :
         ty \in {"missing", "invalid", "list", "number"}}
        \cup {[type |-> "object", object |-> Restrict(SavedConfig, keys)] :
                  keys \in SUBSET ConfigKeys}

\* what a file of records may be: no file, text that is not JSON, a JSON
\* number or null, a JSON list of the records, or one record not in a list
RecordFiles(records) ==
    {[type |-> ty, items |-> << >>] :
         ty \in {"missing", "invalid", "number", "null", "list", "object"}}
        \cup {[type |-> ty, items |-> records] : ty \in {"list", "object"}}

\* what a call left: a value returned, or the exception it raised
Unset == [status |-> "unset", value |-> << >>]
Returned(v) == [status |-> "returned", value |-> << v >>]
Raised(exception) == [status |-> exception, value |-> << >>]

\* load_config: config.get on a JSON value that is not an object raises
\* AttributeError, which line 76 does not catch
LoadConfig(file) ==
    IF file.type \in {"missing", "invalid"} THEN Returned(DefaultConfig)
    ELSE IF file.type = "object"
    THEN Returned([k \in ConfigKeys |->
                      IF k \in DOMAIN file.object THEN file.object[k]
                      ELSE DefaultConfig[k]])
    ELSE Raised("AttributeError")

\* load_trades and load_balance_history: [] for no file and for text that is
\* not JSON, and otherwise whatever json.load returns
LoadRecords(file) ==
    IF file.type \in {"missing", "invalid"}
    THEN Returned([type |-> "list", items |-> << >>])
    ELSE Returned([type |-> file.type, items |-> file.items])

\* the file an earlier run left for a list of records (none before the first
\* save)
FileOf(records) ==
    IF records = << >> THEN [type |-> "missing", items |-> << >>]
    ELSE [type |-> "list", items |-> records]

\* the records of a file that is a list, as trades_file and balance_file hold
\* them
ListOf(file) == IF file.type = "list" THEN file.items ELSE << >>

\* line 179: self.trades = load_trades()
LoadTrades ==
    /\ loaded.init = "start"
    /\ LET result == LoadRecords(raw_files.trades)
       IN  /\ loaded' = [loaded EXCEPT !.trades = result, !.init = "179"]
           /\ trades' = ListOf(result.value[1])
    /\ UNCHANGED << trade_exec_ids, exec_id_to_tree_id, tree, trades_file,
                    sort_column, sort_reverse, tradeHist, queue, balanceVars,
                    connVars, h_last, h_writers, windowVars, calcVars,
                    calc_result_vars, lookupHist, raw_files >>

\* line 180: the set comprehension over self.trades. A number or None is not
\* iterable; an object is iterated by its keys, and 'ExecId' in "ExecId" holds,
\* so that "ExecId"['ExecId'] raises TypeError
BuildExecIds ==
    /\ loaded.init = "179"
    /\ LET got == loaded.trades.value[1]
           raises == \/ got.type \in {"number", "null"}
                     \/ /\ got.type = "object"
                        /\ \E i \in 1..Len(got.items) :
                              "ExecId" \in DOMAIN got.items[i]
       IN  IF raises
           THEN /\ loaded' = [loaded EXCEPT !.init = "raised"]
                /\ UNCHANGED trade_exec_ids
           ELSE /\ loaded' = [loaded EXCEPT !.init = "180"]
                /\ trade_exec_ids' =
                       {trades[i]["ExecId"] :
                            i \in {j \in 1..Len(trades) :
                                       "ExecId" \in DOMAIN trades[j]}}
    /\ UNCHANGED << trades, exec_id_to_tree_id, tree, trades_file, sort_column,
                    sort_reverse, tradeHist, queue, balanceVars, connVars,
                    h_last, h_writers, windowVars, calcVars, calc_result_vars,
                    lookupHist, raw_files >>

\* line 185: _load_app_config
LoadAppConfig ==
    /\ loaded.init = "180"
    /\ LET result == LoadConfig(raw_files.config)
       IN  IF result.status = "returned"
           THEN /\ loaded' = [loaded EXCEPT !.config = result, !.init = "185"]
                /\ auto_refresh_enabled' = result.value[1].auto_refresh_enabled
           ELSE /\ loaded' = [loaded EXCEPT !.config = result,
                                            !.init = "raised"]
                /\ UNCHANGED auto_refresh_enabled
    /\ UNCHANGED << tradeVars, tradeHist, queue, balanceVars, ib_app, connected,
                    login_enabled, refresh_enabled, auto_refresh_job, timers,
                    checks, auto_connect_pending, req_executions, closed,
                    h_closed, h_cancelled, h_fired_offline, h_last, h_writers,
                    windowVars, calcVars, calc_result_vars, lookupHist,
                    raw_files >>

\* lines 187-194: the widgets are built, the table is filled from self.trades
\* (line 250) and the automatic connection is scheduled
SetupUi ==
    /\ loaded.init = "185"
    /\ loaded' = [loaded EXCEPT !.init = "done"]
    /\ tree' = RepopulateTree(trades).tree
    /\ exec_id_to_tree_id' = RepopulateTree(trades).map
    /\ auto_connect_pending' = loaded.config.value[1].auto_connect_on_startup
    /\ h_first' = [e \in trade_exec_ids |-> trades[FindTrade(trades, e)]]
    /\ h_exec_delivered' = trade_exec_ids
    /\ h_applied' = trade_exec_ids
    /\ UNCHANGED << trades, trade_exec_ids, trades_file, sort_column,
                    sort_reverse, h_dropped, queue, balanceVars, ib_app,
                    connected, login_enabled, refresh_enabled,
                    auto_refresh_enabled, auto_refresh_job, timers, checks,
                    req_executions, closed, h_closed, h_cancelled,
                    h_fired_offline, h_last, h_writers, windowVars, calcVars,
                    calc_result_vars, lookupHist, raw_files >>

\* lines 643-666: the balance history window opened on the file as it was at
\* launch. self.history is what load_balance_history returned; on anything
\* but a list, self.history.sort (line 679) raises AttributeError and the
\* window stays empty
ShowHistoryAtLaunch ==
    /\ loaded.init = "done"
    /\ loaded.balances.status = "unset"
    /\ ~history_open
    /\ LET result == LoadRecords(raw_files.balances)
           s == HistorySortByColumn(ListOf(result.value[1]), "DateTime",
                                    TRUE, "DateTime")
       IN  /\ loaded' = [loaded EXCEPT !.balances = result]
           /\ history_open' = TRUE
           /\ window_history' = s.history
           /\ history_sort_column' = s.sort_column
           /\ history_sort_reverse' = s.sort_reverse
           /\ h_last' = << [kind |-> "history_sort", col |-> "DateTime",
                            before |-> ListOf(result.value[1]),
                            column |-> "DateTime", reverse |-> TRUE], FALSE >>
    /\ UNCHANGED << tradeVars, tradeHist, queue, balanceVars, connVars,
                    h_writers, calcVars, calc_result_vars, lookupHist,
                    raw_files >>

-----------------------------------------------------------------------------
(* Initial states and specifications *)

\* no account reported yet: the calculator as _setup_calculator_ui leaves it
InitAccount ==
    /\ AccountBalance = 0
    /\ SelectedAccount = ""
    /\ managed_accounts = << >>
    /\ calc_result_vars = InitialResults

\* the widgets and the connection state as __init__ leaves them
InitWidgets ==
    /\ sort_column = "Time"
    /\ sort_reverse = TRUE
    /\ queue = << >>
    /\ now = 0
    /\ ib_app = FALSE
    /\ connected = FALSE
    /\ login_enabled = TRUE
    /\ refresh_enabled = FALSE
    /\ auto_refresh_job = 0
    /\ timers = {}
    /\ checks = 0
    /\ req_executions = 0
    /\ closed = FALSE
    /\ h_dropped = {}
    /\ h_last = << [kind |-> "init"], FALSE >>
    /\ h_writers = [c \in {"trades", "trade_exec_ids", "balance_log", "ui"} |-> {}]
    /\ h_closed = FALSE
    /\ h_cancelled = FALSE
    /\ h_fired_offline = FALSE
    /\ window_history = << >>
    /\ history_sort_column = "DateTime"
    /\ history_sort_reverse = TRUE
    /\ history_open = FALSE
    /\ Ticker = ""
    /\ RiskPrct = Number(100)
    /\ Entry = Number(0)
    /\ Stop = Number(0)
    /\ Target = Number(0)
    /\ h_tried = << >>
    /\ h_report = "none"

\* __init__ once load_trades has returned the list in trades and load_config
\* the settings; the files are those an earlier run left
InitRest ==
    /\ trades_file = trades
    /\ trade_exec_ids = {trades[i]["ExecId"] : i \in 1..Len(trades)}
    /\ tree = RepopulateTree(trades).tree
    /\ exec_id_to_tree_id = RepopulateTree(trades).map
    /\ auto_refresh_enabled \in BOOLEAN
    /\ auto_connect_pending \in BOOLEAN
    /\ h_first = [e \in trade_exec_ids |-> trades[FindTrade(trades, e)]]
    /\ h_exec_delivered = trade_exec_ids
    /\ h_applied = trade_exec_ids
    /\ raw_files =
           [config |-> [type |-> "object",
                        object |-> [k \in {"auto_refresh_enabled",
                                           "auto_connect_on_startup"} |->
                                       IF k = "auto_refresh_enabled"
                                       THEN auto_refresh_enabled
                                       ELSE auto_connect_pending]],
            trades |-> FileOf(trades), balances |-> FileOf(balance_file)]
    /\ loaded = [config |-> LoadConfig(raw_files.config),
                 trades |-> LoadRecords(raw_files.trades),
                 balances |-> Unset, init |-> "done"]
    /\ InitWidgets

Init ==
    /\ trades \in StoredTrades
    /\ balance_file \in StoredBalances
    /\ h_delivered = [a \in Accounts |-> Balances(ForAccount(balance_file, a))]
    /\ InitAccount
    /\ InitRest

\* execution and commission events, and column clicks
NextTrades ==
    \/ \E x \in Executions : ExecDetails(x)
    \/ \E c \in CommissionReports : CommissionReport(c)
    \/ AddTradeUpdate
    \/ FinancialsUpdate
    \/ \E col \in ClickColumns : SortClick(col)

\* account events of the transport
NextBalance ==
    \/ \E accounts \in {<< "U1", "U2" >>} : ManagedAccounts(accounts)
    \/ \E a \in Accounts, tag \in {"NetLiquidation", "TotalCashValue"},
          v \in BalanceStrings : AccountSummary(a, tag, v)
    \/ Tick

\* connection life cycle and the auto-refresh timer
NextConnection ==
    \/ \E ok \in BOOLEAN : Login(ok)
    \/ \E ok \in BOOLEAN : AutoConnect(ok)
    \/ CheckConnectionStatus
    \/ \E id \in timers : TimerFires(id)
    \/ \E enabled \in BOOLEAN : OnSettingsChanged(enabled)
    \/ RefreshClick
    \/ NextValidId
    \/ ConnectionClosed
    \/ ResetUpdate
    \/ OnClosing

\* the reconciliation engine alone: no balance log, no connection activity
InitTrades ==
    Init /\ balance_file = << >> /\ auto_refresh_enabled /\ ~auto_connect_pending
SpecTrades == InitTrades /\ [][NextTrades]_vars

\* the balance change-log alone
InitBalance ==
    Init /\ trades = << >> /\ auto_refresh_enabled /\ ~auto_connect_pending
SpecBalance == InitBalance /\ [][NextBalance]_vars

\* the account events with the balance history window being opened and
\* closed meanwhile: the window loads the log the transport thread appends to
NextBalanceLog ==
    \/ NextBalance
    \/ ShowBalanceHistory
    \/ CloseHistoryWindow

SpecBalanceLog == InitBalance /\ [][NextBalanceLog]_vars

\* the connection and its timer alone
InitConnection == Init /\ trades = << >> /\ balance_file = << >>
SpecConnection == InitConnection /\ [][NextConnection]_vars

\* the two sorted tables alone, over stores that hold rows a hand edit or an
\* older version left: a text in a numeric column, a missing key, equal keys
SortRecords ==
    LET r == TradeData(CHOOSE x \in Executions : x.execId = "e1" /\ x.shares = 100)
    IN  << [r EXCEPT !["ExecId"] = "s1", !["Commission"] = 35],
           [r EXCEPT !["ExecId"] = "s2", !["Quantity"] = "abc", !["Time"] = "0915"],
           [k \in DOMAIN r \ {"Quantity", "Commission"} |->
              IF k = "ExecId" THEN "s3" ELSE r[k]],
           [r EXCEPT !["ExecId"] = "s4", !["Quantity"] = "7", !["Time"] = "0945"],
           [r EXCEPT !["ExecId"] = "s5", !["Commission"] = 35] >>

SortHistoryRecords ==
    << [Account |-> "U1", DateTime |-> 0, Balance |-> 10000],
       [Account |-> "U2", DateTime |-> 0, Balance |-> 10000],
       [Account |-> "U1", DateTime |-> 1, Balance |-> "abc"],
       [Account |-> "U2", DateTime |-> 1] >>

MaxRows == 3    \* rows of a sorted table

\* the arrangements of up to MaxRows distinct rows out of n, as index tuples
Arrangements(n) ==
    UNION { { p \in [1..k -> 1..n] : \A i, j \in 1..k : i # j => p[i] # p[j] } :
            k \in 0..MaxRows }

SortColumns == {"Time", "Quantity", "Commission"}

InitSort ==
    /\ \/ /\ \E p \in Arrangements(Len(SortRecords)) :
                trades = [i \in 1..Len(p) |-> SortRecords[p[i]]]
          /\ balance_file = << >>
       \/ /\ trades = << >>
          /\ \E p \in Arrangements(Len(SortHistoryRecords)) :
                balance_file = [i \in 1..Len(p) |-> SortHistoryRecords[p[i]]]
    /\ h_delivered = [a \in Accounts |-> << >>]
    /\ InitAccount
    /\ InitRest
    /\ auto_refresh_enabled /\ ~auto_connect_pending

NextSort ==
    \/ \E col \in SortColumns : SortClick(col)
    \/ ShowBalanceHistory
    \/ \E col \in {HistoryColumns[i] : i \in 1..Len(HistoryColumns)} :
          HistorySortClick(col)
    \/ CloseHistoryWindow

SpecSort == InitSort /\ [][NextSort]_vars


\* the calculator alone, some way into a session: the accounts are known and
\* the balance of the selected one has been reported and logged
InitCalc ==
    /\ trades = << >>
    /\ AccountBalance \in CalcBalances
    /\ SelectedAccount = "U1"
    /\ managed_accounts = << "U1", "U2" >>
    /\ balance_file = << [Account |-> "U1", DateTime |-> 0,
                          Balance |-> AccountBalance] >>
    /\ h_delivered = [a \in Accounts |-> Balances(ForAccount(balance_file, a))]
    /\ calc_result_vars = Outputs(AccountBalance, 100, 0, 0, 0)
    /\ InitRest
    /\ auto_refresh_enabled /\ ~auto_connect_pending

NextCalc ==
    \/ \E v \in RiskTexts : TypeInput("RiskPrct", v)
    \/ \E name \in CalcInputs \ {"RiskPrct"}, v \in PriceTexts : TypeInput(name, v)

SpecCalc == InitCalc /\ [][NextCalc]_vars

\* the price lookup alone
NextLookup ==
    \/ \E t \in {"", "AAPL"} : TypeTicker(t)
    \/ \E answers \in [1..Len(exchanges) -> Answers] : FetchTickerPrice(answers)
    \/ EntryPriceUpdate
    \/ FetchReportUpdate
    \/ \E name \in {"Entry", "Stop"}, v \in {Number(5000), Number(4800)} :
          TypeInput(name, v)

InitLookup == InitCalc /\ AccountBalance = 1000000
SpecLookup == InitLookup /\ [][NextLookup]_vars

\* the launch alone, before __init__ has run: the three files are anything a
\* user or an earlier run may have left, and no attribute is assigned yet
\* (the variables of the attributes hold the values of an empty session)
InitLoad ==
    /\ raw_files \in [config : ConfigFiles,
                       trades : RecordFiles(<< StoredTrade >>),
                       balances : RecordFiles(<< [Account |-> "U1", DateTime |-> 0,
                                                  Balance |-> 10000] >>)]
    /\ loaded = [config |-> Unset, trades |-> Unset, balances |-> Unset,
                 init |-> "start"]
    /\ trades = << >>
    /\ trades_file = ListOf(raw_files.trades)
    /\ balance_file = ListOf(raw_files.balances)
    /\ trade_exec_ids = {}
    /\ tree = << >>
    /\ exec_id_to_tree_id = << >>
    /\ auto_refresh_enabled = FALSE
    /\ auto_connect_pending = FALSE
    /\ h_first = << >>
    /\ h_exec_delivered = {}
    /\ h_applied = {}
    /\ h_delivered = [a \in Accounts |-> Balances(ForAccount(balance_file, a))]
    /\ InitAccount
    /\ InitWidgets

NextLoad ==
    \/ LoadTrades
    \/ BuildExecIds
    \/ LoadAppConfig
    \/ SetupUi
    \/ ShowHistoryAtLaunch

SpecLoad == InitLoad /\ [][NextLoad]_vars

\* a session with records in both stores, launched with automatic connection
\* and refresh on: the connection life cycle together
\* with the arrival of one execution and a balance report while connected, and
\* clicks on a heading
InitLifecycle ==
    /\ trades = << StoredTrade >>
    /\ balance_file = << [Account |-> "U1", DateTime |-> 0, Balance |-> 10000] >>
    /\ h_delivered = [a \in Accounts |-> Balances(ForAccount(balance_file, a))]
    /\ InitAccount
    /\ InitRest
    /\ auto_refresh_enabled /\ auto_connect_pending

NextLifecycle ==
    \/ NextConnection
    \/ /\ IsConnected
       /\ "e1" \notin h_exec_delivered
       /\ \E x \in {y \in Executions : y.execId = "e1" /\ y.shares = 100} :
             ExecDetails(x)
    \/ AddTradeUpdate
    \/ SortClick("Time")
    \/ /\ IsConnected
       /\ Deliveries = 1
       /\ AccountSummary("U1", "NetLiquidation", "150.5")

SpecLifecycle == InitLifecycle /\ [][NextLifecycle]_vars

\* the whole program
Next ==
    \/ NextTrades \/ NextBalance \/ NextConnection \/ NextSort \/ NextCalc
    \/ NextLookup \/ NextLoad \/ NextLifecycle

Spec == Init /\ [][Next]_vars

-----------------------------------------------------------------------------
(* Properties *)

\* the trade records with a given ExecId
RecordsOf(tr, e) == {i \in 1..Len(tr) : tr[i]["ExecId"] = e}

\* the owner thread is about to run the update at the head of the queue, and
\* this step runs it
Runs(kind) == queue # << >> /\ Head(queue).kind = kind /\ queue' = Tail(queue)

\* a sequence with consecutive repeats collapsed
RECURSIVE Collapse(_)
Collapse(s) ==
    IF Len(s) <= 1 THEN s
    ELSE IF s[Len(s)] = s[Len(s) - 1] THEN Collapse(SubSeq(s, 1, Len(s) - 1))
         ELSE Append(Collapse(SubSeq(s, 1, Len(s) - 1)), s[Len(s)])

\* C1: after any sequence of execution events the trade list holds exactly
\* one record for each non-empty ExecId applied, no other record, and the
\* identity fields of that record are those of the first event for the ExecId.
C1_OneRecordPerExecId ==
    /\ \A i \in 1..Len(trades) : trades[i]["ExecId"] \in DOMAIN h_first
    /\ \A e \in DOMAIN h_first :
          /\ Cardinality(RecordsOf(trades, e)) = 1
          /\ \A i \in RecordsOf(trades, e) :
                \A f \in IdentityFields : trades[i][f] = h_first[e][f]

\* an event for a known ExecId with other identity fields was just discarded
C1_Witness ==
    /\ h_last[1].kind = "add_trade"
    /\ h_last[1].trade_data["ExecId"] \in DOMAIN h_first
    /\ \E f \in IdentityFields :
          h_last[1].trade_data[f] # h_first[h_last[1].trade_data["ExecId"]][f]
    /\ Len(trades) = 2

\* C2: for each account the balances of its records, in log order, are the
\* values passed to log_account_balance for it with consecutive repeats
\* collapsed; so no two consecutive records of an account hold equal Balance.
C2_BalanceLogCollapses ==
    \A a \in Accounts :
        LET logged == Balances(ForAccount(balance_file, a))
        IN  /\ logged = Collapse(h_delivered[a])
            /\ \A i \in 1..(Len(logged) - 1) : logged[i] # logged[i + 1]

\* the values 100, 100, 150.5, 150.5, 100 were delivered for one account
C2_Witness ==
    /\ h_delivered["U1"] = << 10000, 10000, 15050, 15050, 10000 >>
    /\ Balances(ForAccount(balance_file, "U1")) = << 10000, 15050, 10000 >>

\* C3: a commission event whose ExecId has no record changes neither the
\* trade list nor the trades file, and a record holds Commission 0 and
\* Realized P&L 0 until a commission event finds it: nothing dropped earlier
\* reaches it.
C3_DroppedCommission ==
    /\ [](\A i \in 1..Len(trades) :
            trades[i]["ExecId"] \notin h_applied =>
                trades[i]["Commission"] = 0 /\ trades[i]["Realized P&L"] = 0)
    /\ [][(Runs("financials") /\ RecordsOf(trades, Head(queue).exec_id) = {})
            => (trades' = trades /\ trades_file' = trades_file)]_vars

\* a commission for e1 was dropped, then the execution created the record
C3_Witness ==
    /\ "e1" \in h_dropped
    /\ "e1" \notin h_applied
    /\ \E i \in RecordsOf(trades, "e1") :
          trades[i]["Commission"] = 0 /\ trades[i]["Realized P&L"] = 0

\* C4: running the update of a commission event right after the update of
\* the same event leaves the trade list and the trades file as they were.
C4_CommissionIdempotent ==
    [][(Runs("financials") /\ SameCommission(h_last[1], Head(queue)))
        => (trades' = trades /\ trades_file' = trades_file)]_vars

\* the same commission event was applied to a record twice in a row
C4_Witness ==
    /\ h_last[1].kind = "financials"
    /\ h_last[2]
    /\ \E i \in RecordsOf(trades, h_last[1].exec_id) :
          trades[i]["Commission"] = h_last[1].commission

\* C5: an execution event for a known ExecId changes neither the trade list
\* (Commission and Realized P&L included), nor the known-ExecId set, nor the
\* trades file.
C5_RedeliveryIsNoOp ==
    [][(Runs("add_trade") /\ Head(queue).trade_data["ExecId"] \in trade_exec_ids)
        => UNCHANGED << trades, trade_exec_ids, trades_file >>]_vars

\* an execution was delivered again after its commission had been applied
C5_Witness ==
    /\ h_last[1].kind = "add_trade"
    /\ h_last[1].trade_data["ExecId"] = "e1"
    /\ \E i \in RecordsOf(trades, "e1") : trades[i]["Commission"] = 100

\* C6: when the commission event was delivered after the execution event of
\* its ExecId, the update of the commission event leaves the record of that
\* ExecId with the event's commission and its P&L, the unset P&L as 0.
C6_ExecutionThenCommission ==
    [][(Runs("financials") /\ Head(queue).h_after_exec)
        => \E i \in 1..Len(trades') :
              /\ trades'[i]["ExecId"] = Head(queue).exec_id
              /\ trades'[i]["Commission"] = Head(queue).commission
              /\ trades'[i]["Realized P&L"] =
                    IF Head(queue).pnl >= FloatMax THEN 0 ELSE Head(queue).pnl]_vars

\* a commission with the unset P&L reached its record in a re-sorted list
C6_Witness ==
    /\ h_last[1].kind = "financials"
    /\ h_last[1].h_after_exec
    /\ h_last[1].pnl = FloatMax
    /\ Len(trades) = 2
    /\ sort_column = "Commission"
    /\ \E i \in RecordsOf(trades, h_last[1].exec_id) :
          trades[i]["Commission"] = 120 /\ trades[i]["Realized P&L"] = 0

\* C7: after the update of an execution event that creates a record, and
\* after the update of a commission event that finds its record, the trades
\* file holds the in-memory list: same records, same values, same order.
C7_FileHoldsList ==
    [][((Runs("add_trade")
            /\ Head(queue).trade_data["ExecId"] # ""
            /\ RecordsOf(trades, Head(queue).trade_data["ExecId"]) = {})
        \/ (Runs("financials") /\ RecordsOf(trades, Head(queue).exec_id) # {}))
        => trades_file' = trades']_vars

\* C8: the trade list, the known-ExecId set, the balance log and the
\* UI-facing state are mutated by the owner thread only.
C8_OwnerThreadOnly == \A c \in DOMAIN h_writers : h_writers[c] \subseteq {"owner"}

\* C9: at most one auto-refresh timer is pending.
C9_AtMostOneTimer == Cardinality(timers) <= 1

\* a pending timer was cancelled and another one is pending
C9_Witness ==
    /\ h_cancelled
    /\ Cardinality(timers) = 1
    /\ auto_refresh_job \in timers

\* C10: once the reset of a connection-closed event has run with the
\* connection still down, and until a connection attempt succeeds, and once
\* the window is closed, no timer is pending and no reqExecutions is sent;
\* and no step taken while disconnected schedules a timer.
C10_NoRefreshAfterClose ==
    /\ []((h_closed \/ closed) => timers = {})
    /\ [][(h_closed \/ closed) => req_executions' = req_executions]_vars
    /\ [][~IsConnected => timers' \subseteq timers]_vars

\* the timer fired between the disconnect and the reset, and the reset ran
C10_Witness == h_closed /\ h_fired_offline /\ ~closed /\ auto_refresh_enabled

\* float() rejects the value of the column: the key is missing or holds text
Unparsed(row, col) ==
    col \notin DOMAIN row \/ ToString(row[col]) = ToString("abc")

\* the number a parseable value of the column stands for
NumberOf(row, col) == IF ToString(row[col]) = ToString("7") THEN 7 ELSE row[col]

\* rows is in the order the claim describes for the column and the direction
InOrder(rows, col, reverse, numeric) ==
    \A i, j \in 1..Len(rows) : i < j =>
        LET first == IF reverse THEN rows[j] ELSE rows[i]
            second == IF reverse THEN rows[i] ELSE rows[j]
        IN  IF col \in numeric
            THEN /\ Unparsed(second, col) => Unparsed(first, col)
                 /\ (~Unparsed(first, col) /\ ~Unparsed(second, col))
                       => NumberOf(first, col) <= NumberOf(second, col)
            ELSE ~LexLess(Str(second, col), Str(first, col))

\* the trade rows after the sort are the rows before it
SameTrades(rows, before) ==
    /\ Len(rows) = Len(before)
    /\ \A i \in 1..Len(before) :
          \E j \in 1..Len(rows) :
             rows[j]["ExecId"] = before[i]["ExecId"] /\ rows[j] = before[i]

\* C11: after a sort by a numeric column (Quantity, Price, Commission,
\* Realized P&L of a trade, Balance of the balance history) the rows are in
\* numeric order, a row whose value is missing or unparseable before all
\* parseable rows when ascending and after all of them when descending; after
\* a sort by another column they are in the order of the string representations.
C11_SortOrder ==
    /\ h_last[1].kind = "sort" =>
          /\ InOrder(trades, h_last[1].col, sort_reverse, NumericColumns)
          /\ SameTrades(trades, h_last[1].before)
    /\ (h_last[1].kind = "history_sort" /\ history_open) =>
          /\ InOrder(window_history, h_last[1].col, history_sort_reverse, {"Balance"})
          /\ Len(window_history) = Len(h_last[1].before)

\* a descending sort by Quantity moved a row without the key from the front to
\* the end, behind 100 and the text "7"
C11_Witness ==
    /\ h_last[1].kind = "sort"
    /\ h_last[1].col = "Quantity"
    /\ sort_reverse
    /\ Len(trades) = 3
    /\ "Quantity" \notin DOMAIN h_last[1].before[1]
    /\ "Quantity" \notin DOMAIN trades[3]
    /\ ~Unparsed(trades[1], "Quantity") /\ NumberOf(trades[1], "Quantity") = 100
    /\ ~Unparsed(trades[2], "Quantity") /\ NumberOf(trades[2], "Quantity") = 7

\* C12: a selection of the current sort column reverses the direction, and a
\* selection of another column makes it the sort column, ascending; in the
\* trade table and in the balance history window.
C12_ColumnSelection ==
    /\ h_last[1].kind = "sort" =>
          /\ sort_column = h_last[1].col
          /\ sort_reverse = IF h_last[1].col = h_last[1].column
                            THEN ~h_last[1].reverse ELSE FALSE
    /\ (h_last[1].kind = "history_sort" /\ history_open) =>
          /\ history_sort_column = h_last[1].col
          /\ history_sort_reverse = IF h_last[1].col = h_last[1].column
                                    THEN ~h_last[1].reverse ELSE FALSE

\* the current column was selected again and the direction turned to descending
C12_Witness ==
    /\ h_last[1].kind = "sort"
    /\ h_last[1].col = "Quantity"
    /\ h_last[1].column = "Quantity"
    /\ ~h_last[1].reverse
    /\ sort_reverse
    /\ Len(trades) = 3

\* two rows have equal sort keys for the column
EqualKeys(a, b, col) ==
    IF col \in NumericColumns
    THEN \/ Unparsed(a, col) /\ Unparsed(b, col)
         \/ /\ ~Unparsed(a, col) /\ ~Unparsed(b, col)
            /\ NumberOf(a, col) = NumberOf(b, col)
    ELSE Str(a, col) = Str(b, col)

\* the place of the record with the ExecId in the list
PlaceOf(rows, e) == CHOOSE i \in 1..Len(rows) : rows[i]["ExecId"] = e

\* C13: after sort_by_column, ascending or descending, two records with equal
\* sort keys are in the relative order they had before it.
C13_StableSort ==
    h_last[1].kind = "sort" =>
        LET before == h_last[1].before
        IN  /\ SameTrades(trades, before)
            /\ \A i, j \in 1..Len(before) :
                  (i < j /\ EqualKeys(before[i], before[j], h_last[1].col))
                     => PlaceOf(trades, before[i]["ExecId"])
                            < PlaceOf(trades, before[j]["ExecId"])

\* a descending sort by Commission moved s5 and s1, which have the same
\* commission, ahead of a row with a smaller one and kept s5 ahead of s1
C13_Witness ==
    /\ h_last[1].kind = "sort"
    /\ h_last[1].col = "Commission"
    /\ sort_reverse
    /\ Len(trades) = 3
    /\ h_last[1].before[2]["ExecId"] = "s5"
    /\ h_last[1].before[3]["ExecId"] = "s1"
    /\ trades[1]["ExecId"] = "s5"
    /\ trades[2]["ExecId"] = "s1"

\* every calculator input holds a number
AllParse == RiskPrct.parses /\ Entry.parses /\ Stop.parses /\ Target.parses

\* C14: with a balance that is not negative, the share size and the position
\* size shown are non-negative whole numbers, and when the risk per share is
\* zero the share size, the position size and the reward-risk ratio are zero
\* (nothing is divided by the zero risk per share).
C14_NonNegativeSizes ==
    (AllParse /\ AccountBalance >= 0) =>
        /\ calc_result_vars["ShareSizeToBuy"] \in Nat
        /\ calc_result_vars["PositionSize"] \in Nat
        /\ calc_result_vars["Risk-per-Share"] = 0 =>
              /\ calc_result_vars["ShareSizeToBuy"] = 0
              /\ calc_result_vars["PositionSize"] = 0
              /\ calc_result_vars["Reward-Risk"] = 0

\* entry and stop are the same price, the balance and the target would give a
\* share size and a ratio, and the outputs show a zero risk per share
C14_Witness ==
    /\ AllParse
    /\ AccountBalance = 1000000
    /\ Entry.value = 5000 /\ Stop.value = 5000 /\ Target.value = 5500
    /\ calc_result_vars["Acc1R"] = 10000
    /\ calc_result_vars["Risk-per-Share"] = 0
    /\ calc_result_vars["ShareSizeToBuy"] = 0

\* the outputs of the calculation carried out on exact numbers (cents, and
\* hundredths of a percent or of a ratio), for a balance of whole dollars
\* that is not negative
Reference(balance, risk, entry, stop, target) ==
    LET risk_prct == IF 1 <= risk /\ risk <= 10000 THEN risk ELSE 100
        risk_per_share == IF entry > 0 /\ stop > 0 THEN Abs(entry - stop) ELSE 0
        share_size == IF risk_per_share > 0
                      THEN ((balance \div 100) * risk_prct)
                               \div (100 * risk_per_share)
                      ELSE 0
        position_size == Ceil(entry * share_size, 100)
        potential_per_share == IF target > 0 THEN Abs(target - entry) ELSE 0
    IN  ("Acc1R" :> Round((balance \div 100) * risk_prct, 100)) @@
        ("Risk-per-Share" :> risk_per_share) @@
        ("ShareSizeToBuy" :> share_size) @@
        ("PositionSize" :> position_size) @@
        ("AccountAtRiskPrct" :>
            IF balance > 0
            THEN (position_size * 1000) \div (balance \div 1000) ELSE 0) @@
        ("Reward-Risk" :>
            IF risk_per_share > 0
            THEN (potential_per_share * 100) \div risk_per_share ELSE 0) @@
        ("Potential" :> potential_per_share * share_size)

\* C15: for every input tuple of the grid that parses, with a balance that is
\* not negative, the outputs displayed are those of the reference pipeline:
\* the share size the floor of the account risk over the risk per share, the
\* position size the ceiling of entry times share size, and the reward-risk
\* ratio and the account-at-risk percentage floored to two decimals.
C15_ReferencePipeline ==
    (AllParse /\ AccountBalance >= 0 /\ AccountBalance % 1000 = 0) =>
        calc_result_vars = Reference(AccountBalance, RiskPrct.value, Entry.value,
                                     Stop.value, Target.value)

\* the example of the specification: (10000, 1, 50, 48, 55) gives 100.00, 2.00,
\* 50, 2500, 25.00 %, 2.50 and 250.00
C15_ExampleWitness ==
    /\ AllParse /\ AccountBalance = 1000000 /\ RiskPrct.value = 100
    /\ Entry.value = 5000 /\ Stop.value = 4800 /\ Target.value = 5500
    /\ calc_result_vars =
           ("Acc1R" :> 10000) @@ ("Risk-per-Share" :> 200) @@
           ("ShareSizeToBuy" :> 50) @@ ("PositionSize" :> 2500) @@
           ("AccountAtRiskPrct" :> 2500) @@ ("Reward-Risk" :> 250) @@
           ("Potential" :> 25000)

\* balance 2500, risk 0.25 %, entry 55, stop 50: one share, a position of 55,
\* which is 2.2 % of the balance, displayed as 2.19 %
C15_FlooredWitness ==
    /\ AllParse /\ AccountBalance = 250000 /\ RiskPrct.value = 25
    /\ Entry.value = 5500 /\ Stop.value = 5000
    /\ calc_result_vars["ShareSizeToBuy"] = 1
    /\ calc_result_vars["PositionSize"] = 55
    /\ calc_result_vars["AccountAtRiskPrct"] = 219

\* C16: when an input of the calculator does not parse as a number,
\* update_calculations raises nothing and leaves all seven outputs as they
\* were: a step after which some input does not parse changes no output.
C16_UnparseableKeepsOutputs ==
    [][(~AllParse)' => calc_result_vars' = calc_result_vars]_vars

\* the entry price was made unparseable after a computation that gave 50
\* shares, and the outputs still show that computation
C16_Witness ==
    /\ ~Entry.parses /\ RiskPrct.parses /\ Stop.parses /\ Target.parses
    /\ calc_result_vars["ShareSizeToBuy"] = 50
    /\ calc_result_vars["PositionSize"] = 2500
    /\ calc_result_vars["Risk-per-Share"] = 200

\* the last price lookup asked its venues in the fixed order, none before the
\* last asked returned a price, and it went through all four unless the last
\* asked returned one
TriedInOrder ==
    /\ Len(h_tried) <= 4
    /\ \A i \in 1..Len(h_tried) :
          /\ h_tried[i].exchange = << "NASDAQ", "NYSE", "AMEX", "ARCA" >>[i]
          /\ i < Len(h_tried) => h_tried[i].answer # "price"
    /\ (h_tried # << >> /\ h_tried[Len(h_tried)].answer # "price")
          => Len(h_tried) = 4

EveryVenueFailed == \A i \in 1..Len(h_tried) : h_tried[i].answer # "price"

CalculatorUnchanged ==
    /\ Entry' = Entry /\ Stop' = Stop /\ Target' = Target
    /\ calc_result_vars' = calc_result_vars

\* C19: a price lookup tries NASDAQ, NYSE, AMEX, ARCA in that order and stops
\* at the first venue that returns a price; a lookup in which every venue
\* failed hands over a failure report and nothing else, and neither the lookup
\* nor the report changes Entry, Stop, Target or a calculator output.
C19_VenueOrderAndFailure ==
    /\ []TriedInOrder
    /\ [][(Len(queue') > Len(queue) /\ Ticker # "") =>
             /\ CalculatorUnchanged
             /\ queue'[Len(queue')].kind =
                    IF EveryVenueFailed' THEN "fetch_error" ELSE "entry_price"]_vars
    /\ [][(Len(queue') < Len(queue) /\ Head(queue).kind = "fetch_error") =>
             h_report' = "error" /\ CalculatorUnchanged]_vars

\* every venue failed and the failure was reported, with the Entry and Stop
\* the user typed and the outputs computed from them still in place
C19_Witness ==
    /\ h_report = "error"
    /\ Len(h_tried) = 4 /\ EveryVenueFailed
    /\ h_tried[2].answer = "error" /\ h_tried[3].answer = "none"
    /\ Entry = Number(5000) /\ Stop = Number(4800)
    /\ calc_result_vars["ShareSizeToBuy"] = 50

\* the lookup stopped at the second venue, which returned a price
C19_StoppedWitness ==
    /\ Len(h_tried) = 2 /\ h_tried[2].answer = "price"
    /\ h_report = "updated" /\ Entry = Number(5050)

\* a file that is missing or malformed: not there, not JSON, or JSON of
\* another top-level type than the store is written with
Malformed(file, type) == file.type # type

EmptyList == [type |-> "list", items |-> << >>]

\* C17: loading a store that is missing or malformed never fails startup:
\* load_config returns the six defaults for a missing or malformed config
\* file and the default of each key the file lacks, and load_trades and
\* load_balance_history return an empty list for a missing or malformed file,
\* whether the file is invalid JSON or valid JSON of the wrong top-level type.
C17_LoadersFallBack ==
    /\ loaded.init # "raised"
    /\ loaded.config.status \in {"unset", "returned"}
    /\ loaded.config.status = "returned" =>
          \A k \in ConfigKeys :
             loaded.config.value[1][k] =
                IF Malformed(raw_files.config, "object")
                      \/ k \notin DOMAIN raw_files.config.object
                THEN DefaultConfig[k] ELSE raw_files.config.object[k]
    /\ (loaded.trades.status # "unset" /\ Malformed(raw_files.trades, "list")) =>
          loaded.trades = Returned(EmptyList)
    /\ (loaded.balances.status # "unset"
           /\ Malformed(raw_files.balances, "list")) =>
          loaded.balances = Returned(EmptyList)

\* what does hold: the claim for files that are missing, not JSON, or of the
\* top-level type the store is written with
C17_ExceptWrongType ==
    (/\ raw_files.config.type \in {"missing", "invalid", "object"}
     /\ raw_files.trades.type \in {"missing", "invalid", "list"}
     /\ raw_files.balances.type \in {"missing", "invalid", "list"})
        => C17_LoadersFallBack

\* config.json holds a JSON list: load_config raised AttributeError and
\* __init__ ended on line 185
C17_ConfigListWitness ==
    /\ raw_files.config.type = "list"
    /\ raw_files.trades.type = "missing"
    /\ loaded.config = Raised("AttributeError")
    /\ loaded.init = "raised"

\* trades.json holds one record outside a list: load_trades returned it
C17_TradesObjectWitness ==
    /\ raw_files.trades = [type |-> "object", items |-> << StoredTrade >>]
    /\ loaded.trades = Returned(raw_files.trades)
    /\ loaded.init = "raised"

\* startup went through on files that are not JSON, with the defaults
C17_InvalidWitness ==
    /\ raw_files.config.type = "invalid" /\ raw_files.trades.type = "invalid"
    /\ raw_files.balances.type = "invalid"
    /\ loaded.init = "done"
    /\ loaded.config = Returned(DefaultConfig)
    /\ loaded.trades = Returned(EmptyList)
    /\ loaded.balances = Returned(EmptyList)
    /\ ~auto_connect_pending /\ auto_refresh_enabled

\* the ExecIds of a list of records, in its order
ExecIdOrder(tr) == [i \in 1..Len(tr) |-> Get(tr[i], "ExecId")]

\* a step that is a click on a column heading: the sort state changes and no
\* record is added
IsSortClick ==
    /\ trade_exec_ids' = trade_exec_ids
    /\ sort_column' # sort_column \/ sort_reverse' # sort_reverse

\* a save that writes the records in the order the file had them, with at most
\* one new record in front
SaveKeepsOrder ==
    \/ ExecIdOrder(trades_file') = ExecIdOrder(trades_file)
    \/ /\ trades_file' # << >>
       /\ Tail(ExecIdOrder(trades_file')) = ExecIdOrder(trades_file)

\* C20: the sorted view is a read-only derived ordering: a click on a column
\* heading does not change the order of the in-memory trade list, and a later
\* save writes the records in the order the store had without the sort.
C20_SortIsReadOnly ==
    /\ [][IsSortClick => trades' = trades]_vars
    /\ [][trades_file' # trades_file => SaveKeepsOrder]_vars

\* the records of a list, and the ExecIds of its records
RecordSet(tr) == {tr[i] : i \in 1..Len(tr)}
ExecIdSet(tr) == {Get(tr[i], "ExecId") : i \in 1..Len(tr)}

\* a step of the connection life cycle (login, status check, connection loss,
\* reset, refresh, timer, settings change, closing) or a click on a heading
LifecycleStep ==
    \/ connVars' # connVars
    \/ Runs("reset")
    \/ IsSortClick

\* the list after the step holds every ExecId it held, and is not shorter
OnlyAdds(before, after) ==
    /\ ExecIdSet(before) \subseteq ExecIdSet(after)
    /\ Len(before) <= Len(after)

\* C18: no trade record and no balance record is ever removed: the steps of
\* the connection life cycle, a refresh, a sort, a settings change and closing
\* leave the records of the trade list, of the trades file and of the balance
\* log as they are, and every other step only adds records to them.
C18_NoRecordRemoved ==
    /\ [][LifecycleStep =>
             /\ RecordSet(trades') = RecordSet(trades)
             /\ trades_file' = trades_file
             /\ balance_file' = balance_file]_vars
    /\ [][/\ OnlyAdds(trades, trades')
          /\ OnlyAdds(trades_file, trades_file')
          /\ Len(balance_file) <= Len(balance_file')
          /\ SubSeq(balance_file', 1, Len(balance_file)) = balance_file]_vars

\* the session was closed after a connection loss, with the stored trade, the
\* trade that arrived and both balance records in place
C18_Witness ==
    /\ closed /\ h_closed
    /\ ExecIdSet(trades) = {"e1", "e2"}
    /\ ExecIdSet(trades_file) = {"e1", "e2"}
    /\ Len(balance_file) = 2

\* the fields of a record that a commission event does not carry
KeptFields == {"ExecId", "Time", "Instrument", "Action", "Quantity", "Price",
               "Account"}

\* C21: the update of a commission event whose ExecId has a record changes
\* only the Commission and the Realized P&L of that record: its other fields,
\* every field of every other record, the order of the trade list and the
\* known-ExecId set are unchanged.
C21_CommissionFrame ==
    [][(Runs("financials") /\ RecordsOf(trades, Head(queue).exec_id) # {}) =>
          /\ trade_exec_ids' = trade_exec_ids
          /\ Len(trades') = Len(trades)
          /\ \A i \in 1..Len(trades) :
                IF trades[i]["ExecId"] = Head(queue).exec_id
                THEN /\ DOMAIN trades'[i] = DOMAIN trades[i]
                     /\ \A f \in KeptFields : trades'[i][f] = trades[i][f]
                ELSE trades'[i] = trades[i]]_vars

\* a commission reached the record of e1 in a list of two, and the stored
\* record e2 kept its own commission and P&L
C21_Witness ==
    /\ h_last[1].kind = "financials"
    /\ h_last[1].exec_id = "e1"
    /\ Len(trades) = 2
    /\ \E i \in RecordsOf(trades, "e1") : trades[i]["Commission"] = 100
    /\ \E i \in RecordsOf(trades, "e2") :
          trades[i]["Commission"] = 35 /\ trades[i]["Realized P&L"] = -40

\* C22: the update of a commission event whose ExecId has a record leaves in
\* that record the Commission as reported and, as Realized P&L, 0 when the
\* event reports the unset P&L (a value >= the maximum float) and the
\* reported P&L otherwise.
C22_SentinelPnl ==
    [][(Runs("financials") /\ RecordsOf(trades, Head(queue).exec_id) # {}) =>
          \A i \in RecordsOf(trades', Head(queue).exec_id) :
             /\ trades'[i]["Commission"] = Head(queue).commission
             /\ Head(queue).pnl >= FloatMax => trades'[i]["Realized P&L"] = 0
             /\ Head(queue).pnl < FloatMax =>
                   trades'[i]["Realized P&L"] = Head(queue).pnl]_vars

\* the unset P&L was reported for e1 after a P&L of -250 had been stored
C22_Witness ==
    /\ h_last[1].kind = "financials"
    /\ h_last[1].pnl = FloatMax
    /\ h_last[1].commission = 120
    /\ \E i \in RecordsOf(trades, "e1") :
          trades[i]["Commission"] = 120 /\ trades[i]["Realized P&L"] = 0
    /\ \E i \in RecordsOf(trades_file, "e1") :
          trades_file[i]["Commission"] = 120 /\ trades_file[i]["Realized P&L"] = 0

\* a reported P&L was stored as it is
C22_ReportedWitness ==
    /\ h_last[1].kind = "financials"
    /\ h_last[1].pnl = -250
    /\ \E i \in RecordsOf(trades, "e1") :
          trades[i]["Commission"] = 100 /\ trades[i]["Realized P&L"] = -250

\* the amount differs from balance * risk / 10000 by half a cent at most
\* (balance in cents, risk in hundredths of a percent)
WithinHalfCent(amount, balance, risk) ==
    IF balance % 100 = 0
    THEN Abs(100 * amount - (balance \div 100) * risk) <= 50
    ELSE Abs(10000 * amount - balance * risk) <= 5000

\* C23: the risk amount shown is the balance times riskPercent/100 when that
\* fraction lies in [0.0001, 1], and the balance times 0.01 otherwise
C23_RiskFractionOrOnePercent ==
    AllParse =>
        WithinHalfCent(calc_result_vars["Acc1R"], AccountBalance,
                       IF 1 <= RiskPrct.value /\ RiskPrct.value <= 10000
                       THEN RiskPrct.value ELSE 100)
C23_AboveWitness ==
    /\ AllParse
    /\ RiskPrct.value = 10001
    /\ AccountBalance = 1000000
    /\ calc_result_vars["Acc1R"] = 10000
C23_BoundaryWitness ==
    /\ AllParse
    /\ RiskPrct.value = 1
    /\ AccountBalance = 1000000
    /\ calc_result_vars["Acc1R"] = 100
C23_WholeWitness ==
    /\ AllParse
    /\ RiskPrct.value = 10000
    /\ AccountBalance = 250000
    /\ calc_result_vars["Acc1R"] = 250000
C23_NegativeWitness ==
    /\ AllParse
    /\ RiskPrct.value = -100
    /\ AccountBalance = 250000
    /\ calc_result_vars["Acc1R"] = 2500

\* C24: the balance log is append-only: every step leaves the records the
\* file held as a prefix of the file and adds at most one record after them,
\* whether the value reported is valid or not and whether the history window
\* is loading the log or not
C24_AppendOnly ==
    [][\/ balance_file' = balance_file
       \/ /\ Len(balance_file') = Len(balance_file) + 1
          /\ SubSeq(balance_file', 1, Len(balance_file)) = balance_file
          /\ balance_file'[Len(balance_file')].Account \in Accounts]_vars
C24_Witness ==
    /\ history_open
    /\ Len(window_history) = 1
    /\ Len(balance_file) = 3
    /\ balance_file[1] = window_history[1]
    /\ balance_file[3].Account = balance_file[1].Account

\* C25: the DateTime of an appended record is strictly later than that of
\* the record before it in the log
C25_StrictlyLater ==
    [][Len(balance_file') > Len(balance_file) /\ Len(balance_file) > 0 =>
          balance_file'[Len(balance_file')].DateTime
              > balance_file[Len(balance_file)].DateTime]_vars

\* C26: in every state the known-ExecId set is the set of the ExecIds of the
\* records of the trade list, and the keys of the ExecId-to-row map are those
\* same ExecIds
C26_KnownIdsAreListIds ==
    /\ trade_exec_ids = ExecIdSet(trades)
    /\ DOMAIN exec_id_to_tree_id = ExecIdSet(trades)
C26_Witness ==
    /\ h_last[1].kind = "sort"
    /\ Len(trades) = 2
    /\ trade_exec_ids = {"e1", "e2"}
    /\ DOMAIN exec_id_to_tree_id = {"e1", "e2"}
    /\ "e1" \in h_applied
    /\ trades_file # trades

\* C27: an execution update, of a new or of a known ExecId, leaves the sort
\* column and the sort direction as they are
C27_ExecutionKeepsSortState ==
    [][Runs("add_trade") =>
          sort_column' = sort_column /\ sort_reverse' = sort_reverse]_vars

\* acc_1r of the state, in quarters of a dollar: its whole part
BudgetQuarters ==
    FloatFloor(Scaled(AccountRiskAmount(AccountBalance, RiskPrct.value), 2))

C28_WholeBalanceWitness ==
    /\ AllParse
    /\ AccountBalance = 250000
    /\ RiskPrct.value = 10000
    /\ calc_result_vars["Risk-per-Share"] = 700
    /\ calc_result_vars["ShareSizeToBuy"] = 357

=============================================================================
